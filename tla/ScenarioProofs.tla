---------------------------- MODULE ScenarioProofs ----------------------------
(* The theorems about the runs of scenarios: those of ScenarioRuns, which admits, queues,
   closes and stops them, and those of LightAuthority, about what a run does with a light.
   The two models have no names in common: the names of ScenarioRuns that every model
   has (RunsInit, RunsNext, RunsSpec ...) say whose they are.                  *)

EXTENDS ScenarioRuns, LightAuthority, TLAPS, FiniteSetTheorems, SequenceTheorems

Stacks == [Triggers -> Seq(Frames)]

---------------------------------------------------------------------------
(* What a step does to the stacks.                                           *)

\* The last frame of t is changed to f.
Retops(t, f) ==
    /\ stack' \in Stacks
    /\ \A u \in Triggers \ {t} : stack'[u] = stack[u]
    /\ Len(stack'[t]) = Len(stack[t])
    /\ \A i \in 1..Len(stack[t]) - 1 : stack'[t][i] = stack[t][i]
    /\ stack'[t][Len(stack[t])] = f

\* The last frame of t is gone; the one below it is at p.
Pops(t, p) ==
    /\ stack' \in Stacks
    /\ \A u \in Triggers \ {t} : stack'[u] = stack[u]
    /\ Len(stack'[t]) = Len(stack[t]) - 1
    /\ \A i \in 1..Len(stack[t]) - 2 : stack'[t][i] = stack[t][i]
    /\ Len(stack[t]) > 1 =>
         stack'[t][Len(stack[t]) - 1] = [stack[t][Len(stack[t]) - 1] EXCEPT !.pc = p]

Points == {"enter", "skip", "queue", "caught", "leave"} \union Bodies

LEMMA TopIsFrame ==
    ASSUME stack \in Stacks, NEW t \in Triggers, Running(t)
    PROVE  /\ stack[t] \in Seq(Frames) /\ Len(stack[t]) \in Nat \ {0}
           /\ Top(t) = stack[t][Len(stack[t])] /\ Top(t) \in Frames
  BY DEF Stacks, Running, Top, Last

LEMMA GoesFacts ==
    ASSUME stack \in Stacks, NEW t \in Triggers, Running(t), NEW p \in Points, Goes(t, p)
    PROVE  Retops(t, [Top(t) EXCEPT !.pc = p])
<1> DEFINE n == Len(stack[t])
           f == [Top(t) EXCEPT !.pc = p]
           new == [stack[t] EXCEPT ![n] = f]
<1>1. f \in Frames
  BY TopIsFrame DEF Frames, Points, Bodies
<1>2. new \in Seq(Frames) /\ Len(new) = n /\ new[n] = f /\ \A i \in 1..n - 1 : new[i] = stack[t][i]
  BY <1>1, TopIsFrame
<1>3. stack' = [stack EXCEPT ![t] = new]
  BY TopIsFrame DEF Goes, Stacks
<1> QED
  BY <1>2, <1>3 DEF Stacks, Retops

LEMMA LeavesFacts ==
    ASSUME stack \in Stacks, NEW t \in Triggers, Running(t), NEW raises \in BOOLEAN,
           Leaves(t, raises)
    PROVE  Retops(t, [Top(t) EXCEPT !.pc = "leave", !.raises = raises])
<1> DEFINE n == Len(stack[t])
           f == [Top(t) EXCEPT !.pc = "leave", !.raises = raises]
           new == [stack[t] EXCEPT ![n] = f]
<1>1. f \in Frames
  BY TopIsFrame DEF Frames
<1>2. new \in Seq(Frames) /\ Len(new) = n /\ new[n] = f /\ \A i \in 1..n - 1 : new[i] = stack[t][i]
  BY <1>1, TopIsFrame
<1>3. stack' = [stack EXCEPT ![t] = new]
  BY TopIsFrame DEF Leaves, Stacks
<1> QED
  BY <1>2, <1>3 DEF Stacks, Retops

LEMMA ReturnsFacts ==
    ASSUME stack \in Stacks, NEW t \in Triggers, Running(t), NEW p \in Points, Returns(t, p)
    PROVE  Pops(t, p)
<1> DEFINE n == Len(stack[t])
           rest == Front(stack[t])
           new == IF rest = <<>> THEN <<>> ELSE [rest EXCEPT ![Len(rest)].pc = p]
<1>1. stack[t] \in Seq(Frames) /\ n \in Nat \ {0}
  BY TopIsFrame
<1>2. rest \in Seq(Frames) /\ Len(rest) = n - 1 /\ \A i \in 1..n - 1 : rest[i] = stack[t][i]
  BY <1>1 DEF Front
<1>3. /\ new \in Seq(Frames) /\ Len(new) = n - 1
      /\ \A i \in 1..n - 2 : new[i] = stack[t][i]
      /\ n > 1 => new[n - 1] = [stack[t][n - 1] EXCEPT !.pc = p]
  <2>1. CASE n = 1
    BY <1>1, <1>2, <2>1
  <2>2. CASE n > 1
    <3> DEFINE f == [stack[t][n - 1] EXCEPT !.pc = p]
    <3>1. Len(rest) = n - 1 /\ rest # <<>> /\ rest[n - 1] = stack[t][n - 1]
      BY <1>1, <1>2, <2>2
    <3>2. new = [rest EXCEPT ![n - 1] = f]
      BY <3>1
    <3>3. f \in Frames
      <4>1. stack[t][n - 1] \in Frames
        BY <1>1, <2>2
      <4> QED
        BY <4>1 DEF Frames, Points, Bodies
    <3> HIDE DEF n, rest, new, f
    <3>4. rest \in Seq(Frames) /\ Len(rest) = n - 1 /\ n - 1 \in 1..Len(rest)
      BY <1>1, <1>2, <2>2
    <3>5. /\ new \in Seq(Frames) /\ Len(new) = n - 1
          /\ new[n - 1] = f /\ \A i \in 1..n - 2 : new[i] = rest[i]
      BY <1>1, <3>2, <3>3, <3>4
    <3>6. \A i \in 1..n - 2 : new[i] = stack[t][i]
      BY <1>1, <1>2, <3>5
    <3> QED
      BY <3>5, <3>6 DEF f
  <2> HIDE DEF n, rest, new
  <2> QED
    BY <1>1, <2>1, <2>2
<1>4. stack' = [stack EXCEPT ![t] = new]
  BY DEF Returns
<1> QED
  BY <1>3, <1>4 DEF Stacks, Pops

---------------------------------------------------------------------------
(* The shape of the stacks: whoever waits for a nested run is at it, and only the last
   frame may repeat a scenario, so that the depth is bounded.                 *)

Below(t) == \A i \in 1..Len(stack[t]) - 1 : stack[t][i].pc = "nested"

Distinct(t) ==
    \A i, j \in 1..Len(stack[t]) - 1 : stack[t][i].s = stack[t][j].s => i = j

Shape == stack \in Stacks /\ \A t \in Triggers : Below(t) /\ Distinct(t)

Name(t, i) == stack[t][i].s

Live(t, i) == i \in 1..Len(stack[t]) /\ stack[t][i].pc \in Bodies

\* No frame comes up, none is renamed, and none starts its body.
Fewer ==
    \A t \in Triggers : \A i \in 1..Len(stack'[t]) :
        /\ i \in 1..Len(stack[t])
        /\ Name(t, i)' = Name(t, i)
        /\ Live(t, i)' => Live(t, i)
        /\ stack'[t][i].counted => stack[t][i].counted

\* The last frame of t goes on to f, or is over; no body is started.
Stays(t, f) == f \in Frames /\ f.s = Top(t).s /\ f.calls = Top(t).calls /\ Retops(t, f)

Quiet(t) ==
    /\ Running(t)
    /\ \/ \E f \in Frames : /\ Stays(t, f)
                            /\ f.counted = Top(t).counted
                            /\ f.pc \in Bodies => Top(t).pc \in Bodies
                            /\ f.pc \notin {"enter", "queue"}
       \/ \E p \in {"act", "record"} : Pops(t, p)

LEMMA StaysShape ==
    ASSUME Shape, NEW t \in Triggers, Running(t), NEW f, Stays(t, f)
    PROVE  Shape'
<1>1. ASSUME NEW u \in Triggers PROVE (Below(u) /\ Distinct(u))'
  <2>1. CASE u = t
    BY <2>1, TopIsFrame DEF Shape, Stays, Retops, Below, Distinct
  <2>2. CASE u # t
    BY <2>2 DEF Shape, Stays, Retops, Below, Distinct
  <2> QED
    BY <2>1, <2>2
<1> QED
  BY <1>1 DEF Shape, Stays, Retops

LEMMA PopsShape ==
    ASSUME Shape, NEW t \in Triggers, Running(t), NEW p \in Points, Pops(t, p)
    PROVE  Shape'
<1> DEFINE n == Len(stack[t])
<1>1. n \in Nat \ {0} /\ Len(stack'[t]) = n - 1
  BY TopIsFrame DEF Shape, Pops
<1>2. ASSUME NEW u \in Triggers PROVE (Below(u) /\ Distinct(u))'
  <2>1. CASE u = t
    <3>1. \A i \in 1..n - 2 : stack'[t][i] = stack[t][i] /\ i \in 1..n - 1
      BY <1>1 DEF Pops
    <3>2. Len(stack'[t]) - 1 = n - 2
      BY <1>1
    <3>3. Below(t) /\ Distinct(t)
      BY DEF Shape
    <3>4. Below(t)'
      BY <3>1, <3>2, <3>3 DEF Below
    <3>5. Distinct(t)'
      BY <3>1, <3>2, <3>3 DEF Distinct
    <3> QED
      BY <2>1, <3>4, <3>5
  <2>2. CASE u # t
    BY <2>2 DEF Shape, Pops, Below, Distinct
  <2> QED
    BY <2>1, <2>2
<1> QED
  BY <1>2 DEF Shape, Pops

LEMMA StaysFewer ==
    ASSUME Shape, NEW t \in Triggers, Running(t), NEW f, Stays(t, f),
           f.pc \in Bodies => Top(t).pc \in Bodies,
           f.counted => Top(t).counted
    PROVE  Fewer
<1> SUFFICES ASSUME NEW u \in Triggers, NEW i \in 1..Len(stack'[u])
             PROVE  /\ i \in 1..Len(stack[u])
                    /\ Name(u, i)' = Name(u, i)
                    /\ Live(u, i)' => Live(u, i)
                    /\ stack'[u][i].counted => stack[u][i].counted
  BY DEF Fewer
<1>1. CASE u = t
  BY <1>1, TopIsFrame DEF Shape, Stays, Retops, Name, Live
<1>2. CASE u # t
  BY <1>2 DEF Stays, Retops, Name, Live
<1> QED
  BY <1>1, <1>2

LEMMA PopsFewer ==
    ASSUME Shape, NEW t \in Triggers, Running(t), NEW p \in Points, Pops(t, p)
    PROVE  Fewer
<1> SUFFICES ASSUME NEW u \in Triggers, NEW i \in 1..Len(stack'[u])
             PROVE  /\ i \in 1..Len(stack[u])
                    /\ Name(u, i)' = Name(u, i)
                    /\ Live(u, i)' => Live(u, i)
                    /\ stack'[u][i].counted => stack[u][i].counted
  BY DEF Fewer
<1>1. CASE u = t
  <2> DEFINE n == Len(stack[t])
  <2>1. n \in Nat \ {0} /\ Len(stack'[t]) = n - 1 /\ stack[t] \in Seq(Frames)
    BY TopIsFrame DEF Shape, Pops
  <2>2. CASE i \in 1..n - 2
    <3>1. stack'[t][i] = stack[t][i]
      BY <2>2 DEF Pops
    <3> QED
      BY <1>1, <2>1, <2>2, <3>1 DEF Name, Live
  <2>3. CASE i = n - 1 /\ n > 1
    <3>1. stack'[t][i] = [stack[t][i] EXCEPT !.pc = p] /\ stack[t][i] \in Frames
      BY <2>1, <2>3 DEF Pops
    <3>2. stack[t][i].pc = "nested"
      BY <2>1, <2>3 DEF Shape, Below
    <3> QED
      BY <1>1, <2>1, <2>3, <3>1, <3>2 DEF Name, Live, Bodies, Frames
  <2> QED
    BY <1>1, <2>1, <2>2, <2>3
<1>2. CASE u # t
  BY <1>2 DEF Pops, Name, Live
<1> QED
  BY <1>1, <1>2

LEMMA QuietFacts ==
    ASSUME Shape, NEW t \in Triggers, Quiet(t)
    PROVE  Shape' /\ Fewer
<1>1. CASE \E p \in {"act", "record"} : Pops(t, p)
  BY <1>1, PopsShape, PopsFewer DEF Quiet, Points, Bodies
<1>2. CASE ~ \E p \in {"act", "record"} : Pops(t, p)
  BY <1>2, StaysShape, StaysFewer DEF Quiet
<1> QED
  BY <1>1, <1>2

---------------------------------------------------------------------------
(* Which step does what to the stack of its call.                            *)

Hits == hit \subseteq {t \in Triggers : Running(t)}

LEMMA GoesStays ==
    ASSUME Shape, NEW t \in Triggers, Running(t), NEW p \in Points, Goes(t, p)
    PROVE  LET f == [Top(t) EXCEPT !.pc = p]
           IN  Stays(t, f) /\ f.pc = p /\ f.counted = Top(t).counted
<1> DEFINE f == [Top(t) EXCEPT !.pc = p]
<1>1. Top(t) \in Frames
  BY TopIsFrame DEF Shape
<1>2. /\ f \in Frames /\ f.s = Top(t).s /\ f.calls = Top(t).calls
      /\ f.pc = p /\ f.counted = Top(t).counted
  BY <1>1 DEF Frames, Points, Bodies
<1>3. Retops(t, f)
  BY GoesFacts DEF Shape
<1> QED
  BY <1>2, <1>3 DEF Stays

LEMMA GoesQuiet ==
    ASSUME Shape, NEW t \in Triggers, Running(t), NEW p \in Points, Goes(t, p),
           p \notin {"enter", "queue"}, p \in Bodies => Top(t).pc \in Bodies
    PROVE  Quiet(t)
  BY GoesStays, Zenon DEF Quiet, Stays

LEMMA LeavesQuiet ==
    ASSUME Shape, NEW t \in Triggers, Running(t), NEW raises \in BOOLEAN, Leaves(t, raises)
    PROVE  Quiet(t)
<1> DEFINE f == [Top(t) EXCEPT !.pc = "leave", !.raises = raises]
<1>1. Top(t) \in Frames
  BY TopIsFrame DEF Shape
<1>2. /\ f \in Frames /\ f.s = Top(t).s /\ f.calls = Top(t).calls
      /\ f.pc = "leave" /\ f.counted = Top(t).counted
  BY <1>1 DEF Frames
<1>3. Retops(t, f)
  BY LeavesFacts DEF Shape
<1>4. "leave" \notin Bodies \union {"enter", "queue"}
  BY DEF Bodies
<1> QED
  BY <1>2, <1>3, <1>4 DEF Quiet, Stays

LEMMA PopsQuiet ==
    ASSUME Shape, NEW t \in Triggers, Running(t), Raises(t) \/ Answers(t)
    PROVE  Pops(t, "act") /\ Quiet(t)
<1>1. Pops(t, "act")
  BY ReturnsFacts DEF Raises, Answers, Shape, Points, Bodies
<1> QED
  BY <1>1 DEF Quiet

LEMMA ThrownOutQuiet ==
    ASSUME Shape, NEW t \in Triggers, Running(t), ThrownOut(t)
    PROVE  Quiet(t)
  BY LeavesQuiet, PopsQuiet DEF ThrownOut

Calm(t) ==
    \/ Skipped(t) \/ NoNest(t) \/ Act(t) \/ Record(t) \/ Caught(t) \/ Leave(t)
    \/ ThrowWaiting(t) \/ ThrowBody(t) \/ ThrowFinal(t)

LEMMA CalmQuiet ==
    ASSUME Shape, Hits, NEW t \in Triggers, Calm(t)
    PROVE  Quiet(t)
<1> USE DEF At
<1>1. CASE Skipped(t)
  BY <1>1, PopsQuiet DEF Skipped
<1>2. CASE NoNest(t)
  BY <1>2, GoesQuiet DEF NoNest, Points, Bodies
<1>3. CASE Act(t) \/ Record(t)
  BY <1>3, PopsQuiet, LeavesQuiet DEF Act, Record, EndsBody
<1>4. CASE Caught(t)
  BY <1>4, LeavesQuiet DEF Caught
<1>5. CASE Leave(t)
  BY <1>5, PopsQuiet DEF Leave
<1>6. CASE ThrowWaiting(t)
  BY <1>6, ThrownOutQuiet DEF ThrowWaiting, Hits
<1>7. CASE ThrowBody(t)
  <2>1. Running(t)
    BY <1>7 DEF ThrowBody, Hits
  <2>2. CASE mode[Top(t).s] = "queued"
    BY <1>7, <2>1, <2>2, ThrownOutQuiet DEF ThrowBody
  <2>3. CASE mode[Top(t).s] # "queued"
    BY <1>7, <2>1, <2>3, GoesQuiet DEF ThrowBody, Points, Bodies
  <2> QED
    BY <2>2, <2>3
<1>8. CASE ThrowFinal(t)
  BY <1>8, PopsQuiet, LeavesQuiet DEF ThrowFinal, Hits
<1> QED
  BY <1>1, <1>2, <1>3, <1>4, <1>5, <1>6, <1>7, <1>8 DEF Calm

\* A run starts its body; nothing else happens to the stacks.
Starts(t) ==
    /\ Running(t) /\ Top(t).pc \in {"enter", "queue"} /\ t \notin hit
    /\ \E f \in Frames : Stays(t, f) /\ f.pc = "body" /\ f.counted = Top(t).counted

\* A run begins to wait in line.
Waits(t) ==
    /\ Running(t) /\ Top(t).pc = "enter" /\ t \notin hit
    /\ \E f \in Frames : /\ Stays(t, f) /\ f.pc = "queue"
                         /\ f.counted = (holder[Top(t).s] # Null)

\* A run's first frame, or a nested one, comes up at "enter".
Pushes(t) ==
    /\ stack' \in Stacks
    /\ \A u \in Triggers \ {t} : stack'[u] = stack[u]
    /\ Len(stack'[t]) = Len(stack[t]) + 1
    /\ \A i \in 1..Len(stack[t]) - 1 : stack'[t][i] = stack[t][i]
    /\ Running(t) => stack'[t][Len(stack[t])] = [Top(t) EXCEPT !.pc = "nested"]
    /\ LET f == stack'[t][Len(stack[t]) + 1]
       IN  /\ f.pc = "enter" /\ ~f.counted /\ Admitted(f.s)
           /\ f.calls = plan[f.s]
           /\ Running(t) => f.s = Top(t).calls
    /\ Running(t) => /\ Top(t).pc = "body" /\ ~Recursive(t)

LEMMA GoesStarts ==
    ASSUME Shape, NEW t \in Triggers, Running(t), Top(t).pc \in {"enter", "queue"}, t \notin hit,
           Goes(t, "body")
    PROVE  Starts(t)
<1> DEFINE f == [Top(t) EXCEPT !.pc = "body"]
<1>1. Stays(t, f) /\ f.pc = "body" /\ f.counted = Top(t).counted
  BY GoesStays DEF Points, Bodies
<1>2. f \in Frames
  BY <1>1 DEF Stays
<1> QED
  BY <1>1, <1>2 DEF Starts

LEMMA StartsQueued ==
    ASSUME Shape, NEW t \in Triggers, QueueTurn(t)
    PROVE  Starts(t)
  BY GoesStarts DEF QueueTurn, At

LEMMA WaitsFacts ==
    ASSUME Shape, NEW t \in Triggers, At(t, "enter"), NEW c \in BOOLEAN,
           c = (holder[Top(t).s] # Null),
           stack' = [stack EXCEPT ![t][Len(stack[t])].pc = "queue",
                                  ![t][Len(stack[t])].counted = c]
    PROVE  Waits(t)
<1> DEFINE n == Len(stack[t])
           f == [Top(t) EXCEPT !.pc = "queue", !.counted = c]
           new == [stack[t] EXCEPT ![n] = f]
<1>1. Top(t) \in Frames /\ Top(t) = stack[t][n] /\ n \in Nat \ {0} /\ stack[t] \in Seq(Frames)
  BY TopIsFrame DEF Shape, At
<1>2. /\ f \in Frames /\ f.s = Top(t).s /\ f.calls = Top(t).calls
      /\ f.pc = "queue" /\ f.counted = c
  BY <1>1 DEF Frames
<1>3. new \in Seq(Frames) /\ Len(new) = n /\ new[n] = f /\ \A i \in 1..n - 1 : new[i] = stack[t][i]
  BY <1>1, <1>2
<1>4. stack' = [stack EXCEPT ![t] = new]
  BY <1>1 DEF Shape, Stacks
<1>5. Retops(t, f)
  <2> HIDE DEF f, new
  <2> QED
    BY <1>3, <1>4 DEF Retops, Shape, Stacks
<1> QED
  BY <1>2, <1>5 DEF Waits, Stays, At

LEMMA TriggerPushes ==
    ASSUME Shape, NEW t \in Triggers, NEW s \in Scenarios, stack[t] = <<>>, Admitted(s),
           plan \in Plans, stack' = [stack EXCEPT ![t] = <<NewFrame(s)>>]
    PROVE  Pushes(t)
<1>1. NewFrame(s) \in Frames /\ NewFrame(s).pc = "enter" /\ ~NewFrame(s).counted
      /\ NewFrame(s).s = s /\ NewFrame(s).calls = plan[s]
  BY DEF NewFrame, Frames, Plans
<1>2. Len(stack[t]) = 0 /\ ~Running(t)
  BY DEF Running
<1>3. <<NewFrame(s)>> \in Seq(Frames) /\ Len(<<NewFrame(s)>>) = 1
      /\ <<NewFrame(s)>>[1] = NewFrame(s)
  BY <1>1
<1>4. stack' \in Stacks /\ stack'[t] = <<NewFrame(s)>>
      /\ \A u \in Triggers \ {t} : stack'[u] = stack[u]
  BY <1>3 DEF Shape, Stacks
<1> QED
  BY <1>1, <1>2, <1>3, <1>4 DEF Pushes

LEMMA NestPushes ==
    ASSUME Shape, NEW t \in Triggers, At(t, "body"), ~Recursive(t), plan \in Plans,
           Top(t).calls \in Scenarios, Admitted(Top(t).calls),
           stack' = [stack EXCEPT ![t] = Append([@ EXCEPT ![Len(@)].pc = "nested"],
                                                NewFrame(Top(t).calls))]
    PROVE  Pushes(t)
<1> DEFINE n == Len(stack[t])
           s == Top(t).calls
           f == NewFrame(s)
           g == [Top(t) EXCEPT !.pc = "nested"]
           below == [stack[t] EXCEPT ![n] = g]
           new == Append(below, f)
<1>1. f \in Frames /\ f.pc = "enter" /\ ~f.counted /\ f.s = s /\ f.calls = plan[f.s]
  BY DEF NewFrame, Frames, Plans
<1>2. Running(t) /\ Top(t).pc = "body"
  BY DEF At
<1>3. Top(t) \in Frames /\ Top(t) = stack[t][n] /\ n \in Nat \ {0} /\ stack[t] \in Seq(Frames)
  BY <1>2, TopIsFrame DEF Shape
<1>4. g \in Frames
  BY <1>3 DEF Frames, Bodies
<1>5. below \in Seq(Frames) /\ Len(below) = n /\ below[n] = g
      /\ \A i \in 1..n - 1 : below[i] = stack[t][i]
  BY <1>3, <1>4
<1>6. stack' = [stack EXCEPT ![t] = new]
  BY <1>3 DEF Shape, Stacks
<1>10. f \in Frames /\ f.s = Top(t).calls
  BY <1>1
<1> HIDE DEF below, f, g, s
<1>7. new \in Seq(Frames) /\ Len(new) = n + 1 /\ new[n + 1] = f /\ new[n] = g
      /\ \A i \in 1..n - 1 : new[i] = stack[t][i]
  BY <1>3, <1>5, <1>10
<1> HIDE DEF new
<1>8. stack' \in Stacks /\ stack'[t] = new /\ \A u \in Triggers \ {t} : stack'[u] = stack[u]
  BY <1>6, <1>7 DEF Shape, Stacks
<1>9. Admitted(f.s)
  BY <1>1 DEF s
<1> QED
  BY <1>1, <1>2, <1>7, <1>8, <1>9, <1>10 DEF Pushes, g

\* What is below the last frame has one frame of a scenario at most.
LEMMA PushesShape ==
    ASSUME Shape, NEW t \in Triggers, Pushes(t)
    PROVE  Shape'
<1> DEFINE n == Len(stack[t])
<1>1. ASSUME NEW u \in Triggers PROVE (Below(u) /\ Distinct(u))'
  <2>1. CASE u # t
    BY <2>1 DEF Shape, Pushes, Below, Distinct
  <2>2. CASE u = t /\ ~Running(t)
    <3>1. Len(stack'[t]) = 1
      BY <2>2 DEF Running, Pushes
    <3>2. \A i \in 1..Len(stack'[t]) - 1 : FALSE
      BY <3>1
    <3>3. Below(t)' /\ Distinct(t)'
      BY <3>2 DEF Below, Distinct
    <3> QED
      BY <2>2, <3>3
  <2>3. CASE u = t /\ Running(t)
    <3>1. n \in Nat \ {0} /\ Len(stack'[t]) - 1 = n /\ Top(t) = stack[t][n] /\ Top(t) \in Frames
      BY <2>3, TopIsFrame DEF Pushes, Shape
    <3>2. \A i \in 1..n - 1 : stack'[t][i] = stack[t][i]
      BY DEF Pushes
    <3>3. stack'[t][n] = [Top(t) EXCEPT !.pc = "nested"]
      BY <2>3 DEF Pushes
    <3>4. stack'[t][n].pc = "nested" /\ stack'[t][n].s = Top(t).s
      BY <3>1, <3>3 DEF Frames
    <3>5. Below(t)'
      <4>1. \A i \in 1..n : i \in 1..n - 1 \/ i = n
        BY <3>1
      <4> QED
        BY <3>1, <3>2, <3>4, <4>1 DEF Below, Shape
    <3>6. \A i \in 1..n - 1 : stack[t][i].s # Top(t).s
      BY <2>3 DEF Pushes, Recursive
    <3>7. Distinct(t)'
      <4>1. SUFFICES ASSUME NEW i \in 1..n, NEW j \in 1..n, stack'[t][i].s = stack'[t][j].s
                     PROVE  i = j
        BY <3>1 DEF Distinct
      <4>2. (i \in 1..n - 1 \/ i = n) /\ (j \in 1..n - 1 \/ j = n)
        BY <3>1
      <4> QED
        BY <3>1, <3>2, <3>4, <3>6, <4>1, <4>2 DEF Shape, Distinct
    <3> QED
      BY <2>3, <3>5, <3>7
  <2> QED
    BY <2>1, <2>2, <2>3
<1> QED
  BY <1>1 DEF Shape, Pushes

\* The frames that were there keep their places and names, and none is added to those
\* in their bodies.
LEMMA PushesNames ==
    ASSUME Shape, NEW t \in Triggers, Pushes(t), NEW u \in Triggers, NEW i \in 1..Len(stack'[u])
    PROVE  \/ /\ i \in 1..Len(stack[u]) /\ Name(u, i)' = Name(u, i)
              /\ Live(u, i)' => Live(u, i)
              /\ stack'[u][i].counted => stack[u][i].counted
           \/ /\ u = t /\ i = Len(stack[t]) + 1
              /\ ~Live(u, i)' /\ ~stack'[u][i].counted /\ Admitted(Name(u, i)')
<1> DEFINE n == Len(stack[t])
<1>1. n \in Nat /\ Len(stack'[t]) = n + 1 /\ stack[t] \in Seq(Frames)
  BY DEF Shape, Stacks, Pushes
<1>2. CASE u # t
  BY <1>2 DEF Pushes, Name, Live
<1>3. CASE u = t /\ i = n + 1
  BY <1>3 DEF Pushes, Live, Bodies, Name
<1>4. CASE u = t /\ i \in 1..n - 1
  BY <1>4 DEF Pushes, Live, Name
<1>5. CASE u = t /\ i = n
  <2>1. Running(t) /\ n \in Nat \ {0}
    BY <1>1, <1>5 DEF Running
  <2>2. Top(t) = stack[t][n] /\ Top(t) \in Frames /\ Top(t).pc = "body"
    BY <2>1, TopIsFrame DEF Pushes, Shape
  <2>3. stack'[t][n] = [Top(t) EXCEPT !.pc = "nested"]
    BY <2>1 DEF Pushes
  <2> QED
    BY <1>1, <1>5, <2>1, <2>2, <2>3 DEF Live, Name, Frames, Bodies
<1> QED
  BY <1>1, <1>2, <1>3, <1>4, <1>5

---------------------------------------------------------------------------
(* Lines without repetition.                                                 *)

LEMMA AppendLine ==
    ASSUME NEW S, NEW q \in Seq(S), IsInjective(q), NEW x \in S, x \notin Range(q)
    PROVE  /\ Append(q, x) \in Seq(S) /\ IsInjective(Append(q, x))
           /\ Range(Append(q, x)) = Range(q) \union {x}
<1> DEFINE n == Len(q)
           r == Append(q, x)
<1>1. n \in Nat /\ r \in Seq(S) /\ DOMAIN r = 1..n + 1 /\ DOMAIN q = 1..n
      /\ r[n + 1] = x /\ \A i \in 1..n : r[i] = q[i]
  OBVIOUS
<1>2. \A i \in 1..n + 1 : i \in 1..n \/ i = n + 1
  BY <1>1
<1> HIDE DEF n, r
<1>3. \A i \in 1..n : q[i] \in Range(q)
  BY <1>1 DEF Range
<1>4. IsInjective(r)
  BY <1>1, <1>2, <1>3 DEF IsInjective
<1>5. \A y : y \in Range(r) <=> y \in Range(q) \union {x}
  <2>1. \A y : y \in Range(r) <=> \E i \in 1..n + 1 : r[i] = y
    BY <1>1 DEF Range
  <2>2. \A y : y \in Range(q) <=> \E i \in 1..n : q[i] = y
    BY <1>1 DEF Range
  <2>3. n + 1 \in 1..n + 1 /\ \A i \in 1..n : i \in 1..n + 1
    BY <1>1
  <2> QED
    BY <1>1, <1>2, <2>1, <2>2, <2>3
<1> QED
  BY <1>1, <1>4, <1>5 DEF r

\* A line that loses its i-th place.
LEMMA ShortenedLine ==
    ASSUME NEW S, NEW q \in Seq(S), IsInjective(q), NEW i \in DOMAIN q, NEW r \in Seq(S),
           Len(r) = Len(q) - 1,
           \A j \in 1..Len(r) : r[j] = IF j < i THEN q[j] ELSE q[j + 1]
    PROVE  IsInjective(r) /\ Range(r) = Range(q) \ {q[i]}
<1> DEFINE n == Len(q)
           from(j) == IF j < i THEN j ELSE j + 1
<1>1. n \in Nat /\ DOMAIN q = 1..n /\ DOMAIN r = 1..n - 1 /\ i \in 1..n /\ Len(r) = n - 1
  OBVIOUS
<1>2. \A j \in 1..n - 1 : from(j) \in 1..n \ {i} /\ r[j] = q[from(j)]
  BY <1>1
<1>3. \A j, k \in 1..n - 1 : from(j) = from(k) => j = k
  BY <1>1
<1>4. \A k \in 1..n \ {i} : \E j \in 1..n - 1 : from(j) = k
  <2> TAKE k \in 1..n \ {i}
  <2>1. CASE k < i
    BY <1>1, <2>1
  <2>2. CASE k > i
    <3>1. k - 1 \in 1..n - 1 /\ from(k - 1) = k
      BY <1>1, <2>2
    <3> QED
      BY <3>1
  <2> QED
    BY <1>1, <2>1, <2>2
<1> HIDE DEF n, from
<1>5. IsInjective(r)
  BY <1>1, <1>2, <1>3 DEF IsInjective
<1>6. \A y : y \in Range(r) <=> y \in Range(q) \ {q[i]}
  <2>1. \A y : y \in Range(r) <=> \E j \in 1..n - 1 : r[j] = y
    BY <1>1 DEF Range
  <2>2. \A y : y \in Range(q) <=> \E k \in 1..n : q[k] = y
    BY <1>1 DEF Range
  <2>3. \A k \in 1..n \ {i} : q[k] # q[i]
    BY <1>1 DEF IsInjective
  <2> QED
    BY <1>2, <1>4, <2>1, <2>2, <2>3
<1> QED
  BY <1>5, <1>6

LEMMA TailLine ==
    ASSUME NEW S, NEW q \in Seq(S), IsInjective(q), q # <<>>
    PROVE  /\ Tail(q) \in Seq(S) /\ IsInjective(Tail(q))
           /\ Range(Tail(q)) = Range(q) \ {Head(q)}
<1>1. /\ 1 \in DOMAIN q /\ Tail(q) \in Seq(S) /\ Len(Tail(q)) = Len(q) - 1
      /\ \A j \in 1..Len(Tail(q)) : Tail(q)[j] = q[j + 1]
      /\ Head(q) = q[1]
  OBVIOUS
<1> DEFINE r == Tail(q)
<1>2. r \in Seq(S) /\ Len(r) = Len(q) - 1
      /\ \A j \in 1..Len(r) : r[j] = IF j < 1 THEN q[j] ELSE q[j + 1]
  BY <1>1
<1> HIDE DEF r
<1>3. IsInjective(r) /\ Range(r) = Range(q) \ {q[1]}
  BY <1>1, <1>2, ShortenedLine
<1> QED
  BY <1>1, <1>3 DEF r

LEMMA RemoveAtLine ==
    ASSUME NEW S, NEW q \in Seq(S), IsInjective(q), NEW i \in DOMAIN q
    PROVE  /\ RemoveAt(q, i) \in Seq(S) /\ IsInjective(RemoveAt(q, i))
           /\ Range(RemoveAt(q, i)) = Range(q) \ {q[i]}
<1> DEFINE n == Len(q)
           a == SubSeq(q, 1, i - 1)
           b == SubSeq(q, i + 1, n)
<1>1. n \in Nat /\ i \in 1..n
  OBVIOUS
<1>2. a \in Seq(S) /\ Len(a) = i - 1 /\ \A j \in 1..i - 1 : a[j] = q[j]
  BY <1>1
<1>3. b \in Seq(S) /\ Len(b) = n - i /\ \A j \in 1..n - i : b[j] = q[i + j]
  BY <1>1
<1> HIDE DEF n, a, b
<1>4. a \o b \in Seq(S)
  BY <1>2, <1>3
<1>5. Len(a \o b) = n - 1
  <2>1. Len(a \o b) = Len(a) + Len(b)
    BY <1>2, <1>3, ConcatProperties
  <2> QED
    BY <1>1, <1>2, <1>3, <2>1
<1>6. \A j \in 1..n - 1 : (a \o b)[j] = IF j < i THEN q[j] ELSE q[j + 1]
  <2> TAKE j \in 1..n - 1
  <2>1. CASE j < i
    BY <1>1, <1>2, <1>3, <2>1
  <2>2. CASE ~(j < i)
    <3>1. (a \o b)[j] = b[j - (i - 1)] /\ j - (i - 1) \in 1..n - i
      BY <1>1, <1>2, <1>3, <2>2
    <3>2. i + (j - (i - 1)) = j + 1
      BY <1>1
    <3> QED
      BY <1>3, <2>2, <3>1, <3>2
  <2> QED
    BY <2>1, <2>2
<1>7. RemoveAt(q, i) = a \o b
  BY DEF RemoveAt, a, b, n
<1> DEFINE r == a \o b
<1>8. r \in Seq(S) /\ Len(r) = Len(q) - 1
      /\ \A j \in 1..Len(r) : r[j] = IF j < i THEN q[j] ELSE q[j + 1]
  BY <1>4, <1>5, <1>6 DEF n
<1> HIDE DEF r
<1>9. IsInjective(r) /\ Range(r) = Range(q) \ {q[i]}
  BY <1>8, ShortenedLine
<1> QED
  BY <1>7, <1>8, <1>9 DEF r

---------------------------------------------------------------------------
(* The point of the last frame after a step.                                 *)

Rests(t) == Running(t) => Top(t).pc \notin {"enter", "queue"}

LEMMA StaysTop ==
    ASSUME Shape, NEW t \in Triggers, Running(t), NEW f, Stays(t, f)
    PROVE  Running(t)' /\ Top(t)' = f
<1>1. stack'[t] \in Seq(Frames) /\ Len(stack'[t]) = Len(stack[t]) /\ Len(stack[t]) \in Nat \ {0}
  BY TopIsFrame DEF Shape, Stacks, Stays, Retops
<1> QED
  BY <1>1 DEF Stays, Retops, Running, Top, Last

LEMMA PopsTop ==
    ASSUME Shape, NEW t \in Triggers, Running(t), NEW p \in {"act", "record"}, Pops(t, p)
    PROVE  Rests(t)'
<1> DEFINE n == Len(stack[t])
<1>1. n \in Nat \ {0} /\ stack'[t] \in Seq(Frames) /\ Len(stack'[t]) = n - 1
      /\ stack[t] \in Seq(Frames)
  BY TopIsFrame DEF Shape, Stacks, Pops
<1>2. SUFFICES ASSUME n > 1 PROVE Top(t)'.pc = p
  BY <1>1 DEF Rests, Running
<1>3. stack[t][n - 1] \in Frames
  BY <1>1, <1>2
<1>4. stack'[t][n - 1].pc = p
  BY <1>2, <1>3 DEF Pops, Frames
<1> QED
  BY <1>1, <1>4 DEF Top, Last

LEMMA QuietTop ==
    ASSUME Shape, NEW t \in Triggers, Quiet(t)
    PROVE  Rests(t)' /\ \A u \in Triggers \ {t} : stack'[u] = stack[u]
  BY StaysTop, PopsTop DEF Quiet, Rests, Pops, Stays, Retops

LEMMA PushesTop ==
    ASSUME Shape, NEW t \in Triggers, Pushes(t)
    PROVE  Running(t)' /\ Top(t)'.pc = "enter"
<1>1. stack'[t] \in Seq(Frames) /\ Len(stack'[t]) = Len(stack[t]) + 1 /\ Len(stack[t]) \in Nat
  BY DEF Shape, Stacks, Pushes
<1>2. Len(stack'[t]) # 0
  BY <1>1
<1> QED
  BY <1>1, <1>2 DEF Pushes, Running, Top, Last

---------------------------------------------------------------------------
(* Who is in line.                                                           *)

InLine(t, s) == Running(t) /\ Top(t).pc = "queue" /\ Top(t).s = s

Lines ==
    /\ line \in [Scenarios -> Seq(Triggers)]
    /\ \A s \in Scenarios :
         /\ IsInjective(line[s])
         /\ \A t \in Triggers : t \in Range(line[s]) <=> InLine(t, s)

LEMMA SameLines ==
    ASSUME Lines, UNCHANGED line, \A t \in Triggers, s \in Scenarios : InLine(t, s)' <=> InLine(t, s)
    PROVE  Lines'
  BY DEF Lines

LEMMA OthersInLine ==
    ASSUME NEW t \in Triggers, NEW u \in Triggers, stack'[u] = stack[u], NEW s \in Scenarios
    PROVE  InLine(u, s)' <=> InLine(u, s)
  BY DEF InLine, Running, Top

LEMMA QuietLines ==
    ASSUME Shape, Lines, NEW t \in Triggers, Quiet(t), Top(t).pc # "queue", UNCHANGED line
    PROVE  Lines'
<1>1. \A s \in Scenarios : ~InLine(t, s) /\ ~InLine(t, s)'
  BY QuietTop DEF InLine, Rests
<1> QED
  BY <1>1, QuietTop, OthersInLine, SameLines

LEMMA PushesLines ==
    ASSUME Shape, Lines, NEW t \in Triggers, Pushes(t), UNCHANGED line
    PROVE  Lines'
<1>1. \A s \in Scenarios : ~InLine(t, s) /\ ~InLine(t, s)'
  BY PushesTop DEF InLine, Pushes
<1>2. \A u \in Triggers \ {t} : stack'[u] = stack[u]
  BY DEF Pushes
<1> QED
  BY <1>1, <1>2, OthersInLine, SameLines

\* t leaves its line, to start or to give up.
LEMMA LeavesLine ==
    ASSUME Shape, Lines, NEW t \in Triggers, Running(t), Top(t).pc = "queue",
           \A u \in Triggers \ {t} : stack'[u] = stack[u], Rests(t)',
           NEW q, line' = [line EXCEPT ![Top(t).s] = q],
           q \in Seq(Triggers), IsInjective(q), Range(q) = Range(line[Top(t).s]) \ {t}
    PROVE  Lines'
<1> DEFINE s == Top(t).s
<1>1. s \in Scenarios
  BY TopIsFrame DEF Shape, Frames
<1>2. line' \in [Scenarios -> Seq(Triggers)]
  BY DEF Lines
<1>3. ASSUME NEW z \in Scenarios
      PROVE  /\ IsInjective(line'[z])
             /\ \A u \in Triggers : u \in Range(line'[z]) <=> InLine(u, z)'
  <2>1. ~InLine(t, z)' /\ \A u \in Triggers \ {t} : InLine(u, z)' <=> InLine(u, z)
    BY OthersInLine DEF InLine, Rests
  <2>2. CASE z = s
    <3>1. line'[z] = q
      BY <1>1, <2>2 DEF Lines
    <3> QED
      BY <1>1, <2>1, <2>2, <3>1 DEF Lines
  <2>3. CASE z # s
    <3>1. line'[z] = line[z] /\ ~InLine(t, z)
      BY <2>3 DEF Lines, InLine
    <3> QED
      BY <2>1, <3>1 DEF Lines
  <2> QED
    BY <2>2, <2>3
<1> QED
  BY <1>2, <1>3 DEF Lines

LEMMA WaitsLines ==
    ASSUME Shape, Lines, NEW t \in Triggers, Waits(t),
           line' = [line EXCEPT ![Top(t).s] = Append(@, t)]
    PROVE  Lines'
<1>1. PICK s \in Scenarios : s = Top(t).s
  BY TopIsFrame DEF Shape, Frames, Waits
<1>2. line[s] \in Seq(Triggers) /\ IsInjective(line[s]) /\ t \notin Range(line[s])
  BY <1>1 DEF Lines, InLine, Waits
<1>3. /\ Append(line[s], t) \in Seq(Triggers) /\ IsInjective(Append(line[s], t))
      /\ Range(Append(line[s], t)) = Range(line[s]) \union {t}
  BY <1>2, AppendLine
<1>4. line' \in [Scenarios -> Seq(Triggers)] /\ line'[s] = Append(line[s], t)
      /\ \A z \in Scenarios \ {s} : line'[z] = line[z]
  BY <1>1, <1>3 DEF Lines
<1>5. InLine(t, s)' /\ \A z \in Scenarios \ {s} : ~InLine(t, z)' /\ ~InLine(t, z)
  BY <1>1, StaysTop DEF InLine, Waits, Stays
<1>6. \A u \in Triggers \ {t}, z \in Scenarios : InLine(u, z)' <=> InLine(u, z)
  BY OthersInLine DEF Waits, Stays, Retops
<1>7. ASSUME NEW z \in Scenarios
      PROVE  /\ IsInjective(line'[z])
             /\ \A u \in Triggers : u \in Range(line'[z]) <=> InLine(u, z)'
  <2>1. CASE z = s
    <3>1. IsInjective(line'[s]) /\ Range(line'[s]) = Range(line[s]) \union {t}
      BY <1>3, <1>4
    <3>2. \A u \in Triggers : u \in Range(line[s]) <=> InLine(u, s)
      BY <1>1 DEF Lines
    <3>3. \A u \in Triggers : u \in Range(line'[s]) <=> InLine(u, s)'
      <4>1. \A u \in Triggers \ {t} : u \in Range(line'[s]) <=> InLine(u, s)'
        BY <1>1, <1>6, <3>1, <3>2
      <4> QED
        BY <1>5, <3>1, <4>1
    <3> QED
      BY <2>1, <3>1, <3>3
  <2>2. CASE z # s
    BY <1>4, <1>5, <1>6, <2>2 DEF Lines
  <2> QED
    BY <2>1, <2>2
<1> QED
  BY <1>4, <1>7 DEF Lines

---------------------------------------------------------------------------
(* _queue_waiters counts who has its counted flag, and maybe more.           *)

Counted(s) ==
    {id \in Triggers \X Nat : /\ id[2] \in 1..Len(stack[id[1]])
                              /\ stack[id[1]][id[2]].counted
                              /\ stack[id[1]][id[2]].s = s}

Waiters ==
    /\ waiters \in [Scenarios -> 0..QueueLimit]
    /\ \A s \in Scenarios : /\ IsFiniteSet(Counted(s))
                            /\ Cardinality(Counted(s)) <= waiters[s]

LEMMA SameWaiters ==
    ASSUME Waiters, UNCHANGED waiters, \A s \in Scenarios : Counted(s)' \subseteq Counted(s)
    PROVE  Waiters'
<1> SUFFICES ASSUME NEW s \in Scenarios
             PROVE  IsFiniteSet(Counted(s)') /\ Cardinality(Counted(s)') <= waiters[s]
  BY DEF Waiters
<1>1. IsFiniteSet(Counted(s)') /\ Cardinality(Counted(s)') <= Cardinality(Counted(s))
  BY FS_Subset DEF Waiters
<1>2. Cardinality(Counted(s)') \in Nat /\ Cardinality(Counted(s)) \in Nat /\ waiters[s] \in Nat
  BY <1>1, FS_CardinalityType, RunsAssumption DEF Waiters
<1> QED
  BY <1>1, <1>2 DEF Waiters

LEMMA FewerCounted ==
    ASSUME Shape, Fewer, NEW s \in Scenarios
    PROVE  Counted(s)' \subseteq Counted(s)
  BY DEF Fewer, Counted, Name

LEMMA FewerWaiters ==
    ASSUME Shape, Waiters, Fewer, UNCHANGED waiters
    PROVE  Waiters'
  BY FewerCounted, SameWaiters

LEMMA PushesWaiters ==
    ASSUME Shape, Waiters, NEW t \in Triggers, Pushes(t), UNCHANGED waiters
    PROVE  Waiters'
<1>1. \A s \in Scenarios : Counted(s)' \subseteq Counted(s)
  <2> SUFFICES ASSUME NEW s \in Scenarios, NEW u \in Triggers, NEW i \in Nat,
                      i \in 1..Len(stack'[u]), stack'[u][i].counted, stack'[u][i].s = s
               PROVE  <<u, i>> \in Counted(s)
    BY DEF Counted
  <2> QED
    BY PushesNames DEF Counted, Name
<1> QED
  BY <1>1, SameWaiters

\* Whoever begins to wait is counted, if the lock is held.
LEMMA WaitsWaiters ==
    ASSUME Shape, Waiters, NEW t \in Triggers, Waits(t),
           ~(holder[Top(t).s] # Null /\ waiters[Top(t).s] >= QueueLimit),
           waiters' = [waiters EXCEPT ![Top(t).s] = IF holder[Top(t).s] # Null THEN @ + 1 ELSE @]
    PROVE  Waiters'
<1>1. PICK s \in Scenarios : s = Top(t).s
  BY TopIsFrame DEF Shape, Frames, Waits
<1>2. PICK f \in Frames : Stays(t, f) /\ f.counted = (holder[s] # Null)
  BY <1>1 DEF Waits
<1>3. CASE holder[s] = Null
  <2>1. Fewer
    BY <1>1, <1>2, <1>3, StaysFewer, StaysTop DEF Waits, Shape, Bodies
  <2>2. waiters' = waiters
    BY <1>1, <1>3 DEF Waiters
  <2> QED
    BY <2>1, <2>2, FewerWaiters
<1>4. CASE holder[s] # Null
  <2>1. waiters[s] \in Nat /\ waiters[s] < QueueLimit /\ QueueLimit \in Nat
    BY <1>1, <1>4, RunsAssumption DEF Waiters
  <2>2. waiters' \in [Scenarios -> 0..QueueLimit] /\ waiters'[s] = waiters[s] + 1
        /\ \A z \in Scenarios \ {s} : waiters'[z] = waiters[z]
    BY <1>1, <1>4, <2>1 DEF Waiters
  <2>3. ASSUME NEW z \in Scenarios, NEW u \in Triggers, NEW i \in Nat, <<u, i>> \in Counted(z)'
        PROVE  <<u, i>> \in Counted(z) \/ (z = s /\ <<u, i>> = Me(t))
    <3>1. i \in 1..Len(stack'[u]) /\ stack'[u][i].counted /\ stack'[u][i].s = z
      BY <2>3 DEF Counted
    <3>2. CASE u # t
      BY <3>1, <3>2, <1>2 DEF Stays, Retops, Counted
    <3>3. CASE u = t /\ i # Len(stack[t])
      <4>1. Len(stack'[t]) = Len(stack[t]) /\ stack[t] \in Seq(Frames)
        BY <1>2 DEF Stays, Retops, Shape, Stacks
      <4>2. i \in 1..Len(stack[t]) - 1
        BY <3>1, <3>3, <4>1
      <4>3. stack'[t][i] = stack[t][i]
        BY <4>2, <1>2 DEF Stays, Retops
      <4> QED
        BY <3>1, <3>3, <4>1, <4>3 DEF Counted
    <3>4. CASE u = t /\ i = Len(stack[t])
      BY <1>1, <3>1, <3>4, <1>2 DEF Stays, Retops, Me
    <3> QED
      BY <3>2, <3>3, <3>4
  <2>4. \A z \in Scenarios \ {s} : Counted(z)' \subseteq Counted(z)
    BY <2>3 DEF Counted
  <2>5. Counted(s)' \subseteq Counted(s) \union {Me(t)}
    BY <1>1, <2>3 DEF Counted
  <2>6. ASSUME NEW z \in Scenarios
        PROVE  IsFiniteSet(Counted(z)') /\ Cardinality(Counted(z)') <= waiters'[z]
    <3>1. IsFiniteSet(Counted(z)) /\ Cardinality(Counted(z)) <= waiters[z]
          /\ Cardinality(Counted(z)) \in Nat /\ waiters[z] \in Nat
      BY FS_CardinalityType DEF Waiters
    <3>2. CASE z # s
      <4>1. IsFiniteSet(Counted(z)') /\ Cardinality(Counted(z)') <= Cardinality(Counted(z))
            /\ Cardinality(Counted(z)') \in Nat
        BY <2>4, <3>1, <3>2, FS_Subset, FS_CardinalityType
      <4> QED
        BY <2>2, <3>1, <3>2, <4>1
    <3>3. CASE z = s
      <4> DEFINE more == Counted(s) \union {Me(t)}
      <4>3. IsFiniteSet(more) /\ Cardinality(more) \in Nat
            /\ Cardinality(more) = IF Me(t) \in Counted(s) THEN Cardinality(Counted(s))
                                   ELSE Cardinality(Counted(s)) + 1
        <5>1. IsFiniteSet(Counted(s))
          BY <3>1, <3>3
        <5> QED
          BY <5>1, FS_AddElement, FS_CardinalityType
      <4>1. IsFiniteSet(more) /\ Cardinality(more) <= Cardinality(Counted(s)) + 1
            /\ Cardinality(more) \in Nat
        BY <3>1, <3>3, <4>3
      <4>2. IsFiniteSet(Counted(s)') /\ Cardinality(Counted(s)') <= Cardinality(more)
            /\ Cardinality(Counted(s)') \in Nat
        BY <2>5, <4>1, FS_Subset, FS_CardinalityType
      <4> HIDE DEF more
      <4> QED
        BY <2>2, <3>1, <3>3, <4>1, <4>2
    <3> QED
      BY <3>2, <3>3
  <2> QED
    BY <2>2, <2>6 DEF Waiters
<1> QED
  BY <1>3, <1>4

\* A finally counts off its own frame.
LEMMA LeaveWaiters ==
    ASSUME Shape, Waiters, NEW t \in Triggers, Leave(t)
    PROVE  Waiters'
<1>1. Running(t) /\ Pops(t, "act") /\ Quiet(t) /\ Fewer
  BY PopsQuiet, QuietFacts DEF Leave, At
<1>2. CASE ~Top(t).counted
  BY <1>1, <1>2, FewerWaiters DEF Leave
<1>3. CASE Top(t).counted
  <2>1. PICK s \in Scenarios : s = Top(t).s
    BY <1>1, TopIsFrame DEF Shape, Frames
  <2>2. waiters' = [waiters EXCEPT ![s] = @ - 1]
    BY <1>3, <2>1 DEF Leave
  <2>3. Me(t) \in Counted(s)
    BY <1>1, <1>3, <2>1, TopIsFrame DEF Counted, Me, Shape
  <2>4. Me(t) \notin Counted(s)'
    BY <1>1, TopIsFrame DEF Counted, Me, Shape, Pops
  <2>5. \A z \in Scenarios : Counted(z)' \subseteq Counted(z)
    BY <1>1, FewerCounted
  <2>6. ASSUME NEW z \in Scenarios
        PROVE  IsFiniteSet(Counted(z)') /\ Cardinality(Counted(z)') <= Cardinality(Counted(z))
               /\ Cardinality(Counted(z)') \in Nat /\ Cardinality(Counted(z)) \in Nat
               /\ Cardinality(Counted(z)) <= waiters[z] /\ waiters[z] \in 0..QueueLimit
    BY <2>5, FS_Subset, FS_CardinalityType DEF Waiters
  <2>7. Cardinality(Counted(s)') <= Cardinality(Counted(s)) - 1 /\ Cardinality(Counted(s)) >= 1
    <3> DEFINE rest == Counted(s) \ {Me(t)}
    <3>1. Cardinality(rest) = Cardinality(Counted(s)) - 1 /\ IsFiniteSet(rest)
          /\ Cardinality(rest) \in Nat
      BY <2>3, <2>6, FS_RemoveElement, FS_CardinalityType DEF Waiters
    <3>2. Cardinality(Counted(s)') <= Cardinality(rest)
      BY <2>4, <2>5, <3>1, FS_Subset
    <3> HIDE DEF rest
    <3> QED
      BY <2>6, <3>1, <3>2
  <2>8. waiters'[s] = waiters[s] - 1 /\ \A z \in Scenarios \ {s} : waiters'[z] = waiters[z]
    BY <2>2 DEF Waiters
  <2>9. waiters' \in [Scenarios -> 0..QueueLimit]
    BY <2>2, <2>6, <2>7, RunsAssumption DEF Waiters
  <2>10. \A z \in Scenarios : Cardinality(Counted(z)') <= waiters'[z]
    <3> TAKE z \in Scenarios
    <3>1. CASE z = s
      BY <2>6, <2>7, <2>8, <3>1
    <3>2. CASE z # s
      BY <2>6, <2>8, <3>2
    <3> QED
      BY <3>1, <3>2
  <2> QED
    BY <2>6, <2>9, <2>10 DEF Waiters
<1> QED
  BY <1>2, <1>3

---------------------------------------------------------------------------
(* The depth of a stack, and the types.                                      *)

LEMMA Depths ==
    ASSUME Shape, NEW t \in Triggers
    PROVE  Len(stack[t]) \in 0..Cardinality(Depth) /\ 1..Len(stack[t]) \subseteq Depth
<1> DEFINE n == Len(stack[t])
           m == Cardinality(Scenarios)
           names == [i \in 1..n - 1 |-> stack[t][i].s]
<1>1. m \in Nat /\ IsFiniteSet(Scenarios)
  BY RunsAssumption, FS_CardinalityType
<1>2. n \in Nat /\ stack[t] \in Seq(Frames)
  BY DEF Shape, Stacks
<1>3. Cardinality(Depth) = m + 1
  <2>1. 1 \in Int /\ m + 1 \in Int /\ ~(1 > m + 1) /\ (m + 1) - 1 + 1 = m + 1
    BY <1>1
  <2> QED
    BY <2>1, FS_Interval DEF Depth
<1>4. CASE n = 0
  BY <1>1, <1>3, <1>4 DEF Depth
<1>5. CASE n > 0
  <2>1. \A i \in 1..n - 1 : stack[t][i] \in Frames
    BY <1>2
  <2>2. \A i \in 1..n - 1 : stack[t][i].s \in Scenarios
    BY <2>1 DEF Frames
  <2>3. Distinct(t)
    BY DEF Shape
  <2>4. names \in Injection(1..n - 1, Scenarios)
    BY <2>2, <2>3 DEF Distinct, Injection, IsInjective
  <2>5. Cardinality(1..n - 1) <= m
    BY <1>1, <2>4, FS_Injection
  <2> HIDE DEF m, n
  <2>6. Cardinality(1..n - 1) = n - 1
    <3>1. 1 \in Int /\ n - 1 \in Int /\ (1 > n - 1 => n - 1 = 0) /\ (n - 1) - 1 + 1 = n - 1
      BY <1>2, <1>5
    <3> QED
      BY <3>1, FS_Interval
  <2>7. n <= m + 1
    BY <1>1, <1>2, <2>5, <2>6
  <2>8. n \in 0..m + 1 /\ 1..n \subseteq 1..m + 1
    BY <1>1, <1>2, <2>7
  <2> QED
    BY <1>3, <2>8 DEF n, m, Depth
<1> QED
  BY <1>2, <1>4, <1>5

LEMMA MeInRunIds ==
    ASSUME Shape, NEW t \in Triggers, Running(t)
    PROVE  Me(t) \in RunIds
<1>1. Len(stack[t]) \in 1..Len(stack[t])
  BY TopIsFrame DEF Shape
<1> QED
  BY <1>1, Depths DEF Me, RunIds

RunsTypes ==
    /\ mode \in [Scenarios -> Modes] /\ plan \in Plans /\ Acyclic(plan)
    /\ made \subseteq Triggers
    /\ runLock \in Triggers \union {Null}
    /\ runTask \in [Scenarios -> RunIds \union {Null}]
    /\ holder \in [Scenarios -> Triggers \union {Null}]
    /\ blocked \subseteq Scenarios /\ closing \subseteq RunIds
    /\ closed \in BOOLEAN /\ stopping \in BOOLEAN
    /\ edits \in 0..MaxEdits /\ cuts \in 0..MaxCuts

\* Whoever has a call made it.
Called == \A t \in Triggers : Running(t) => t \in made

TInv == Shape /\ RunsTypes /\ Hits /\ Called /\ Lines /\ Waiters

LEMMA InitTInv ==
    ASSUME RunsInit
    PROVE  TInv
<1>1. \A t \in Triggers : stack[t] = <<>> /\ ~Running(t) /\ Len(stack[t]) = 0
  BY DEF RunsInit, Running
<1>2. \A n : n \in 1..0 => FALSE
  OBVIOUS
<1>3. Shape
  <2>1. stack \in Stacks
    BY DEF RunsInit, Stacks
  <2>2. \A t \in Triggers : 1..Len(stack[t]) - 1 = {}
    BY <1>1
  <2> QED
    BY <2>1, <2>2 DEF Shape, Below, Distinct
<1>4. plan \in Plans /\ Acyclic(plan)
  <2>1. Null \notin Scenarios /\ \A s \in Scenarios : plan[s] = Null
    BY RunsAssumption DEF RunsInit
  <2>2. \A circle \in (SUBSET Scenarios) \ {{}} : \E s \in circle : plan[s] \notin circle
    BY <2>1
  <2> QED
    BY <2>2 DEF RunsInit, Plans, Acyclic
<1>5. RunsTypes
  <2>1. 0 \in 0..MaxEdits /\ 0 \in 0..MaxCuts
    BY RunsAssumption
  <2>2. mode \in [Scenarios -> Modes]
    BY RunsAssumption DEF RunsInit
  <2> QED
    BY <1>4, <2>1, <2>2 DEF RunsInit, RunsTypes
<1>6. Hits /\ Called
  BY <1>1 DEF RunsInit, Hits, Called
<1>7. Lines
  <2>1. <<>> \in Seq(Triggers) /\ IsInjective(<<>>) /\ \A t : t \notin Range(<<>>)
    BY DEF IsInjective, Range
  <2> QED
    BY <1>1, <2>1 DEF RunsInit, Lines, InLine
<1>8. Waiters
  <2>1. \A s \in Scenarios : Counted(s) = {}
    BY <1>1, <1>2 DEF Counted
  <2>2. 0 \in 0..QueueLimit /\ waiters = [s \in Scenarios |-> 0]
    BY RunsAssumption DEF RunsInit
  <2>3. IsFiniteSet({}) /\ Cardinality({}) = 0
    BY FS_EmptySet
  <2> QED
    BY <2>1, <2>2, <2>3 DEF Waiters
<1> QED
  BY <1>3, <1>5, <1>6, <1>7, <1>8 DEF TInv

---------------------------------------------------------------------------
(* Every step keeps the types.                                               *)

LEMMA QuietKeeps ==
    ASSUME TInv, NEW t \in Triggers, Quiet(t)
    PROVE  /\ Shape' /\ Fewer
           /\ UNCHANGED made => Called'
           /\ hit' \subseteq hit \union {t} /\ (t \in hit' => Running(t)') => Hits'
           /\ UNCHANGED waiters => Waiters'
           /\ UNCHANGED line /\ Top(t).pc # "queue" => Lines'
<1>1. Shape' /\ Fewer
  BY QuietFacts DEF TInv
<1>2. \A u \in Triggers \ {t} : Running(u)' <=> Running(u)
  BY QuietTop DEF TInv, Running
<1>3. UNCHANGED made => Called'
  BY <1>2 DEF TInv, Called, Quiet
<1>4. hit' \subseteq hit \union {t} /\ (t \in hit' => Running(t)') => Hits'
  BY <1>2 DEF TInv, Hits
<1>5. UNCHANGED waiters => Waiters'
  BY <1>1, FewerWaiters DEF TInv
<1>6. UNCHANGED line /\ Top(t).pc # "queue" => Lines'
  BY QuietLines DEF TInv
<1> QED
  BY <1>1, <1>3, <1>4, <1>5, <1>6

LEMMA LeavesRuns ==
    ASSUME Shape, NEW t \in Triggers, Running(t), NEW raises \in BOOLEAN, Leaves(t, raises)
    PROVE  Running(t)'
<1> DEFINE f == [Top(t) EXCEPT !.pc = "leave", !.raises = raises]
<1>1. Retops(t, f)
  BY LeavesFacts DEF Shape
<1>2. Len(stack'[t]) = Len(stack[t]) /\ Len(stack[t]) # 0
  BY <1>1, TopIsFrame DEF Retops, Shape
<1> QED
  BY <1>2 DEF Running

LEMMA GoesRuns ==
    ASSUME Shape, NEW t \in Triggers, Running(t), NEW p \in Points, Goes(t, p)
    PROVE  Running(t)'
  BY GoesStays, StaysTop

LEMMA RaisesHits ==
    ASSUME Shape, NEW t \in Triggers, Running(t), Raises(t)
    PROVE  hit' \subseteq hit \union {t} /\ (t \in hit' => Running(t)')
<1>1. hit' \subseteq hit \union {t} /\ (t \in hit' => Len(stack[t]) > 1)
  BY DEF Raises
<1>2. Pops(t, "act") /\ Len(stack[t]) \in Nat
  BY PopsQuiet, TopIsFrame DEF Shape
<1>3. Len(stack[t]) > 1 => Len(stack'[t]) # 0
  <2>1. PICK n \in Nat : n = Len(stack[t])
    BY <1>2
  <2>2. Len(stack'[t]) = n - 1
    BY <1>2, <2>1 DEF Pops
  <2>3. n > 1 => n - 1 # 0
    OBVIOUS
  <2> QED
    BY <2>1, <2>2, <2>3
<1>4. Len(stack'[t]) # 0 => Running(t)'
  BY DEF Running
<1> QED
  BY <1>1, <1>3, <1>4

LEMMA ThrownOutHits ==
    ASSUME Shape, NEW t \in Triggers, Running(t), ThrownOut(t)
    PROVE  hit' \subseteq hit \union {t} /\ (t \in hit' => Running(t)')
  BY RaisesHits DEF ThrownOut

LEMMA UnlockedTypes ==
    ASSUME RunsTypes, NEW s, Unlocked(s)
    PROVE  holder' \in [Scenarios -> Triggers \union {Null}]
  BY DEF RunsTypes, Unlocked

\* What the steps of a run leave alone.
LEMMA CalmTypes ==
    ASSUME TInv, NEW t \in Triggers, Calm(t)
    PROVE  RunsTypes'
<1>1. UNCHANGED <<registry, made, gates, runsBounds>>
  BY DEF Calm, Skipped, NoNest, Act, Record, EndsBody, Caught, Leave, ThrowWaiting, ThrowBody,
     ThrowFinal
<1>2. runLock' \in {runLock, Null}
  BY DEF Calm, Skipped, NoNest, Act, Record, EndsBody, Caught, Leave, ThrowWaiting, ThrowBody,
     ThrowFinal
<1>3. runTask' \in [Scenarios -> RunIds \union {Null}]
  <2>1. runTask' \in {runTask, [runTask EXCEPT ![Top(t).s] = Null]}
    BY DEF Calm, Skipped, NoNest, Act, Record, EndsBody, Caught, Leave, ThrowWaiting, ThrowBody,
       ThrowFinal
  <2> QED
    BY <2>1 DEF TInv, RunsTypes
<1>4. holder' \in [Scenarios -> Triggers \union {Null}]
  <2>1. holder' = holder \/ Unlocked(Top(t).s)
    BY DEF Calm, Skipped, NoNest, Act, Record, EndsBody, Caught, Leave, ThrowWaiting, ThrowBody,
       ThrowFinal, queues
  <2> QED
    BY <2>1, UnlockedTypes DEF TInv, RunsTypes
<1> QED
  BY <1>1, <1>2, <1>3, <1>4 DEF TInv, RunsTypes, registry, gates, runsBounds

LEMMA CalmHits ==
    ASSUME TInv, NEW t \in Triggers, Calm(t)
    PROVE  Hits'
<1> USE DEF At
<1>1. Quiet(t) /\ Running(t) /\ Shape
  BY CalmQuiet DEF TInv, Quiet
<1>2. SUFFICES hit' \subseteq hit \union {t} /\ (t \in hit' => Running(t)')
  BY <1>1, QuietKeeps
<1>3. CASE Skipped(t)
  BY <1>3 DEF Skipped, Answers
<1>4. CASE NoNest(t)
  BY <1>4 DEF NoNest
<1>5. CASE Act(t) \/ Record(t)
  BY <1>5 DEF Act, Record, EndsBody, Answers
<1>6. CASE Caught(t)
  BY <1>6 DEF Caught
<1>7. CASE Leave(t)
  BY <1>1, <1>7, RaisesHits DEF Leave, Answers
<1>8. CASE ThrowWaiting(t)
  BY <1>1, <1>8, ThrownOutHits DEF ThrowWaiting
<1>9. CASE ThrowBody(t)
  <2>1. CASE mode[Top(t).s] = "queued"
    BY <1>1, <1>9, <2>1, ThrownOutHits DEF ThrowBody
  <2>2. CASE mode[Top(t).s] # "queued"
    BY <1>9, <2>2 DEF ThrowBody
  <2> QED
    BY <2>1, <2>2
<1>10. CASE ThrowFinal(t)
  BY <1>1, <1>10, RaisesHits DEF ThrowFinal
<1> QED
  BY <1>3, <1>4, <1>5, <1>6, <1>7, <1>8, <1>9, <1>10 DEF Calm

LEMMA CalmTInv ==
    ASSUME TInv, NEW t \in Triggers, Calm(t)
    PROVE  TInv'
<1>1. Quiet(t) /\ Running(t)
  BY CalmQuiet DEF TInv, Quiet
<1>2. Shape' /\ RunsTypes' /\ Hits'
  BY <1>1, QuietKeeps, CalmTypes, CalmHits
<1>3. Called'
  <2>1. UNCHANGED made
    BY DEF Calm, Skipped, NoNest, Act, Record, EndsBody, Caught, Leave, ThrowWaiting, ThrowBody,
       ThrowFinal
  <2> QED
    BY <1>1, <2>1, QuietKeeps
<1>4. Waiters'
  <2>1. CASE Leave(t)
    BY <2>1, LeaveWaiters DEF TInv
  <2>2. CASE ~Leave(t)
    <3>1. UNCHANGED waiters
      BY <2>2 DEF Calm, Skipped, NoNest, Act, Record, EndsBody, Caught, ThrowWaiting, ThrowBody,
         ThrowFinal, queues
    <3> QED
      BY <1>1, <3>1, QuietKeeps
  <2> QED
    BY <2>1, <2>2
<1>5. Lines'
  <2>1. CASE ThrowWaiting(t) /\ Top(t).pc = "queue"
    <3>1. PICK s \in Scenarios : s = Top(t).s
      BY <1>1, TopIsFrame DEF TInv, Shape, Frames
    <3>2. line[s] \in Seq(Triggers) /\ IsInjective(line[s]) /\ t \in Range(line[s])
      BY <1>1, <2>1, <3>1 DEF TInv, Lines, InLine
    <3>3. PICK i \in DOMAIN line[s] : i = Place(t) /\ line[s][i] = t
      <4>1. \E i \in DOMAIN line[s] : line[s][i] = t
        BY <3>2 DEF Range
      <4> QED
        BY <3>1, <4>1 DEF Place
    <3>4. line' = [line EXCEPT ![s] = RemoveAt(line[s], i)]
      BY <2>1, <3>1, <3>3 DEF ThrowWaiting, Place
    <3> DEFINE q == RemoveAt(line[s], i)
    <3>5. q \in Seq(Triggers) /\ IsInjective(q) /\ Range(q) = Range(line[s]) \ {t}
      BY <3>2, <3>3, RemoveAtLine
    <3>6. Rests(t)' /\ \A u \in Triggers \ {t} : stack'[u] = stack[u]
      BY <1>1, QuietTop DEF TInv
    <3> HIDE DEF q
    <3> QED
      BY <1>1, <2>1, <3>1, <3>4, <3>5, <3>6, LeavesLine DEF TInv, q
  <2>2. CASE ~(ThrowWaiting(t) /\ Top(t).pc = "queue")
    <3>1. UNCHANGED line /\ Top(t).pc # "queue"
      BY <2>2 DEF Calm, Skipped, NoNest, Act, Record, EndsBody, Caught, Leave, ThrowWaiting,
         ThrowBody, ThrowFinal, queues, At, Bodies
    <3> QED
      BY <1>1, <3>1, QuietKeeps
  <2> QED
    BY <2>1, <2>2
<1> QED
  BY <1>2, <1>3, <1>4, <1>5 DEF TInv

\* A step that leaves the last frame of t where its body begins, or in line.
LEMMA StaysKeeps ==
    ASSUME TInv, NEW t \in Triggers, Running(t), NEW f \in Frames, Stays(t, f)
    PROVE  /\ Shape'
           /\ UNCHANGED made => Called'
           /\ hit' \subseteq {u \in Triggers : Running(u)} => Hits'
           /\ (f.counted => Top(t).counted) /\ f.pc # "nested" /\ UNCHANGED waiters
                /\ (f.pc \in Bodies => Top(t).pc \in Bodies) => Waiters'
<1>1. \A u \in Triggers : Running(u)' <=> Running(u)
  <2> TAKE u \in Triggers
  <2>1. CASE u = t
    BY <2>1, StaysTop DEF TInv
  <2>2. CASE u # t
    BY <2>2 DEF Stays, Retops, Running
  <2> QED
    BY <2>1, <2>2
<1>2. Shape'
  BY StaysShape DEF TInv
<1> QED
  BY <1>1, <1>2, StaysFewer, FewerWaiters DEF TInv, Called, Hits

LEMMA StartsCounted ==
    ASSUME TInv, NEW t \in Triggers, Starts(t), UNCHANGED waiters
    PROVE  Waiters'
<1>1. PICK f \in Frames : Stays(t, f) /\ f.counted = Top(t).counted
  BY DEF Starts
<1>2. ASSUME NEW s \in Scenarios
      PROVE  Counted(s)' \subseteq Counted(s)
  <2> SUFFICES ASSUME NEW u \in Triggers, NEW i \in Nat, i \in 1..Len(stack'[u]),
                      stack'[u][i].counted, stack'[u][i].s = s
               PROVE  <<u, i>> \in Counted(s)
    BY DEF Counted
  <2>1. stack[t] \in Seq(Frames) /\ Len(stack[t]) \in Nat \ {0} /\ Top(t) = stack[t][Len(stack[t])]
    BY TopIsFrame DEF TInv, Shape, Starts
  <2>2. CASE u # t
    BY <1>1, <2>2 DEF Stays, Retops, Counted
  <2>3. CASE u = t /\ i \in 1..Len(stack[t]) - 1
    BY <1>1, <2>1, <2>3 DEF Stays, Retops, Counted
  <2>4. CASE u = t /\ i = Len(stack[t])
    BY <1>1, <2>1, <2>4 DEF Stays, Retops, Counted
  <2>5. u = t => Len(stack'[u]) = Len(stack[t])
    BY <1>1 DEF Stays, Retops
  <2> QED
    BY <2>1, <2>2, <2>3, <2>4, <2>5
<1> QED
  BY <1>2, SameWaiters DEF TInv

LEMMA StartsKeeps ==
    ASSUME TInv, NEW t \in Triggers, Starts(t), UNCHANGED <<made, waiters>>
    PROVE  /\ Shape' /\ Called' /\ Waiters' /\ Rests(t)'
           /\ \A u \in Triggers \ {t} : stack'[u] = stack[u]
           /\ hit' \subseteq {u \in Triggers : Running(u)} => Hits'
<1>1. PICK f \in Frames : Stays(t, f) /\ f.pc = "body"
  BY DEF Starts
<1>2. Running(t) /\ Rests(t)'
  BY <1>1, StaysTop DEF Starts, TInv, Rests
<1> QED
  BY <1>1, <1>2, StaysKeeps, StartsCounted DEF Stays, Retops

LEMMA EnterQueuedKinds ==
    ASSUME TInv, NEW t \in Triggers, EnterQueued(t)
    PROVE  LET s == Top(t).s IN
           /\ Running(t) /\ s \in Scenarios /\ s \notin blocked /\ mode[s] = "queued"
           /\ Top(t).pc = "enter" /\ t \notin hit
           /\ \/ Quiet(t) /\ UNCHANGED queues
              \/ /\ Starts(t) /\ holder[s] = Null /\ holder' = [holder EXCEPT ![s] = t]
                 /\ UNCHANGED <<line, waiters>>
              \/ /\ Waits(t) /\ UNCHANGED holder
                 /\ ~(holder[s] # Null /\ waiters[s] >= QueueLimit)
                 /\ line' = [line EXCEPT ![s] = Append(@, t)]
                 /\ waiters' = [waiters EXCEPT ![s] = IF holder[s] # Null THEN @ + 1 ELSE @]
<1> DEFINE s == Top(t).s
<1>1. Running(t) /\ Top(t).pc = "enter" /\ t \notin hit /\ s \notin blocked /\ mode[s] = "queued"
  BY DEF EnterQueued, At
<1>2. s \in Scenarios
  BY <1>1, TopIsFrame DEF TInv, Shape, Frames
<1>3. CASE holder[s] # Null /\ waiters[s] >= QueueLimit
  <2>1. Goes(t, "skip") /\ UNCHANGED queues
    BY <1>3 DEF EnterQueued
  <2> QED
    BY <1>1, <1>2, <2>1, GoesQuiet DEF TInv, Points, Bodies
<1>4. CASE ~(holder[s] # Null /\ waiters[s] >= QueueLimit) /\ holder[s] = Null /\ line[s] = <<>>
  <2>1. Goes(t, "body") /\ holder' = [holder EXCEPT ![s] = t] /\ UNCHANGED <<line, waiters>>
    BY <1>4 DEF EnterQueued
  <2>2. Starts(t)
    BY <1>1, <2>1, GoesStarts DEF TInv
  <2> QED
    BY <1>1, <1>2, <1>4, <2>1, <2>2
<1>5. CASE /\ ~(holder[s] # Null /\ waiters[s] >= QueueLimit)
           /\ ~(holder[s] = Null /\ line[s] = <<>>)
  <2>1. /\ stack' = [stack EXCEPT ![t][Len(stack[t])].pc = "queue",
                                  ![t][Len(stack[t])].counted = holder[s] # Null]
        /\ line' = [line EXCEPT ![s] = Append(@, t)]
        /\ waiters' = [waiters EXCEPT ![s] = IF holder[s] # Null THEN @ + 1 ELSE @]
        /\ UNCHANGED holder
    BY <1>5 DEF EnterQueued
  <2>2. Waits(t)
    BY <2>1, WaitsFacts DEF TInv, EnterQueued
  <2> QED
    BY <1>1, <1>2, <1>5, <2>1, <2>2
<1> QED
  BY <1>3, <1>4, <1>5

LEMMA EnterQueuedTInv ==
    ASSUME TInv, NEW t \in Triggers, EnterQueued(t)
    PROVE  TInv'
<1>1. PICK s \in Scenarios : s = Top(t).s
  BY EnterQueuedKinds
<1>2. /\ UNCHANGED <<registry, hit, made, runTask, gates, runsBounds>> /\ Running(t)
      /\ runLock' \in {runLock, t} /\ Top(t).pc = "enter" /\ t \notin hit
      /\ holder' \in {holder, [holder EXCEPT ![s] = t]}
  BY <1>1, EnterQueuedKinds DEF EnterQueued, queues
<1>3. RunsTypes'
  BY <1>1, <1>2 DEF TInv, RunsTypes, registry, gates, runsBounds
<1>4. CASE Quiet(t) /\ UNCHANGED queues
  BY <1>2, <1>3, <1>4, QuietKeeps DEF TInv, queues, Hits
<1>5. CASE Starts(t) /\ UNCHANGED <<line, waiters>>
  <2>1. Lines'
    <3>1. \A z \in Scenarios : ~InLine(t, z) /\ ~InLine(t, z)'
      BY <1>2, <1>5, StartsKeeps DEF InLine, Rests
    <3> QED
      BY <1>2, <1>5, <3>1, StartsKeeps, OthersInLine, SameLines DEF TInv
  <2> QED
    BY <1>2, <1>3, <1>5, <2>1, StartsKeeps DEF TInv, Hits
<1>6. CASE Waits(t) /\ ~(holder[s] # Null /\ waiters[s] >= QueueLimit)
           /\ line' = [line EXCEPT ![s] = Append(@, t)]
           /\ waiters' = [waiters EXCEPT ![s] = IF holder[s] # Null THEN @ + 1 ELSE @]
  <2>1. PICK f \in Frames : Stays(t, f)
    BY <1>6 DEF Waits
  <2>2. Shape' /\ Called' /\ Hits'
    BY <1>2, <2>1, StaysKeeps DEF TInv, Hits
  <2>3. Lines' /\ Waiters'
    BY <1>1, <1>6, WaitsLines, WaitsWaiters DEF TInv
  <2> QED
    BY <1>3, <2>2, <2>3 DEF TInv
<1> QED
  BY <1>1, <1>4, <1>5, <1>6, EnterQueuedKinds

LEMMA AliveFrames ==
    ASSUME Shape, NEW t \in Triggers, NEW i \in Nat
    PROVE  /\ Alive(<<t, i>>) => i <= Len(stack[t]) /\ stack[t][i].pc \in Bodies
           /\ Live(t, i) => Alive(<<t, i>>)
<1>1. <<t, i>>[1] = t /\ <<t, i>>[2] = i
  OBVIOUS
<1>2. Len(stack[t]) \in Nat
  BY DEF Shape, Stacks
<1>3. Live(t, i) => <<t, i>> # Null
  BY Depths, RunsAssumption DEF Live, RunIds
<1> QED
  BY <1>1, <1>2, <1>3 DEF Alive, Live

LEMMA BusyRuns ==
    ASSUME TInv, NEW s \in Scenarios, Busy(s)
    PROVE  /\ runTask[s] \in RunIds /\ runTask[s][1] \in Triggers /\ Running(runTask[s][1])
           /\ Live(runTask[s][1], runTask[s][2])
<1>1. runTask[s] \in RunIds
  BY DEF Busy, Alive, TInv, RunsTypes
<1>2. PICK t \in Triggers, i \in Depth : runTask[s] = <<t, i>>
  BY <1>1 DEF RunIds
<1>3. Len(stack[t]) \in Nat /\ i \in Nat \ {0} /\ i <= Len(stack[t]) /\ stack[t][i].pc \in Bodies
  BY <1>2, RunsAssumption, FS_CardinalityType, AliveFrames DEF Busy, TInv, Shape, Stacks, Depth
<1>4. Running(t) /\ Live(t, i)
  BY <1>3 DEF Running, Live
<1> QED
  BY <1>1, <1>2, <1>4

LEMMA EnterTaskKinds ==
    ASSUME TInv, NEW t \in Triggers, EnterTask(t)
    PROVE  LET s == Top(t).s IN
           /\ Running(t) /\ s \in Scenarios /\ s \notin blocked /\ mode[s] # "queued"
           /\ Top(t).pc = "enter" /\ t \notin hit
           /\ \/ Quiet(t) /\ UNCHANGED <<runTask, hit>>
              \/ /\ Starts(t) /\ ~(mode[s] = "single" /\ Busy(s))
                 /\ runTask' = [runTask EXCEPT ![s] = Me(t)]
                 /\ hit' = IF Busy(s) THEN hit \union {runTask[s][1]} ELSE hit
<1> DEFINE s == Top(t).s
<1>1. Running(t) /\ Top(t).pc = "enter" /\ t \notin hit /\ s \notin blocked /\ mode[s] # "queued"
  BY DEF EnterTask, At
<1>2. s \in Scenarios
  BY <1>1, TopIsFrame DEF TInv, Shape, Frames
<1>3. CASE mode[s] = "single" /\ Busy(s)
  <2>1. Goes(t, "skip") /\ UNCHANGED <<runTask, hit>>
    BY <1>3 DEF EnterTask
  <2> QED
    BY <1>1, <1>2, <2>1, GoesQuiet DEF TInv, Points, Bodies
<1>4. CASE ~(mode[s] = "single" /\ Busy(s))
  <2>1. /\ Goes(t, "body") /\ runTask' = [runTask EXCEPT ![s] = Me(t)]
        /\ hit' = IF Busy(s) THEN hit \union {runTask[s][1]} ELSE hit
    BY <1>4 DEF EnterTask
  <2>2. Starts(t)
    BY <1>1, <2>1, GoesStarts DEF TInv
  <2> QED
    BY <1>1, <1>2, <1>4, <2>1, <2>2
<1> QED
  BY <1>3, <1>4

LEMMA StartsLines ==
    ASSUME TInv, NEW t \in Triggers, Starts(t), Top(t).pc = "enter",
           UNCHANGED <<made, waiters, line>>
    PROVE  Lines'
<1>1. \A z \in Scenarios : ~InLine(t, z) /\ ~InLine(t, z)'
  BY StartsKeeps DEF InLine, Rests
<1> QED
  BY <1>1, StartsKeeps, OthersInLine, SameLines DEF TInv

LEMMA EnterTaskTInv ==
    ASSUME TInv, NEW t \in Triggers, EnterTask(t)
    PROVE  TInv'
<1>1. PICK s \in Scenarios : s = Top(t).s
  BY EnterTaskKinds
<1>2. /\ UNCHANGED <<registry, made, queues, gates, runsBounds>> /\ Running(t)
      /\ runLock' \in {runLock, t} /\ Top(t).pc = "enter" /\ t \notin hit
  BY EnterTaskKinds DEF EnterTask
<1>3. runTask' \in {runTask, [runTask EXCEPT ![s] = Me(t)]} /\ Me(t) \in RunIds
  BY <1>1, <1>2, EnterTaskKinds, MeInRunIds DEF TInv
<1>4. RunsTypes'
  BY <1>2, <1>3 DEF TInv, RunsTypes, registry, gates, runsBounds, queues
<1>5. CASE Quiet(t) /\ UNCHANGED <<runTask, hit>>
  BY <1>2, <1>4, <1>5, QuietKeeps DEF TInv, queues, Hits
<1>6. CASE Starts(t) /\ hit' = IF Busy(s) THEN hit \union {runTask[s][1]} ELSE hit
  <2>1. hit' \subseteq {u \in Triggers : Running(u)}
    BY <1>6, BusyRuns DEF TInv, Hits
  <2> QED
    BY <1>2, <1>4, <1>6, <2>1, StartsKeeps, StartsLines DEF TInv, queues
<1> QED
  BY <1>1, <1>5, <1>6, EnterTaskKinds

LEMMA QueueTurnTInv ==
    ASSUME TInv, NEW t \in Triggers, QueueTurn(t)
    PROVE  TInv'
<1>1. Starts(t) /\ Running(t) /\ Top(t).pc = "queue"
  BY StartsQueued DEF TInv, QueueTurn, At
<1>2. PICK s \in Scenarios : s = Top(t).s
  BY <1>1, TopIsFrame DEF TInv, Shape, Frames
<1>3. /\ UNCHANGED <<registry, hit, made, runLock, runTask, waiters, gates, runsBounds>>
      /\ Head(line[s]) = t /\ holder' = [holder EXCEPT ![s] = t]
      /\ line' = [line EXCEPT ![s] = Tail(line[s])]
  BY <1>2 DEF QueueTurn
<1>4. RunsTypes'
  BY <1>3 DEF TInv, RunsTypes, registry, gates, runsBounds
<1>5. Lines'
  <2>1. line[s] \in Seq(Triggers) /\ IsInjective(line[s]) /\ t \in Range(line[s])
    BY <1>1, <1>2 DEF TInv, Lines, InLine
  <2>2. line[s] # <<>>
    BY <2>1 DEF Range
  <2> DEFINE q == Tail(line[s])
  <2>3. q \in Seq(Triggers) /\ IsInjective(q) /\ Range(q) = Range(line[s]) \ {t}
    BY <1>3, <2>1, <2>2, TailLine
  <2>4. line' = [line EXCEPT ![Top(t).s] = q]
    BY <1>2, <1>3
  <2> HIDE DEF q
  <2> QED
    BY <1>1, <1>2, <1>3, <2>3, <2>4, StartsKeeps, LeavesLine DEF TInv
<1> QED
  BY <1>1, <1>3, <1>4, <1>5, StartsKeeps DEF TInv, Hits

LEMMA PushesTInv ==
    ASSUME TInv, NEW t \in Triggers, Pushes(t), made' \in {made, made \union {t}}, t \in made',
           UNCHANGED <<registry, hit, runLock, runTask, queues, gates, runsBounds>>
    PROVE  TInv'
<1>1. \A u \in Triggers \ {t} : Running(u)' <=> Running(u)
  BY DEF Pushes, Running
<1>2. Running(t)' /\ Shape'
  BY PushesTop, PushesShape DEF TInv
<1>3. Hits' /\ Called'
  BY <1>1, <1>2 DEF TInv, Hits, Called
<1>4. RunsTypes'
  BY DEF TInv, RunsTypes, registry, gates, runsBounds, queues
<1>5. Lines' /\ Waiters'
  BY PushesLines, PushesWaiters DEF TInv, queues
<1> QED
  BY <1>2, <1>3, <1>4, <1>5 DEF TInv

LEMMA TriggerTInv ==
    ASSUME TInv, NEW t \in Triggers, NEW s \in Scenarios, Trigger(t, s)
    PROVE  Pushes(t) /\ TInv'
<1>1. stack[t] = <<>>
  BY DEF Trigger, TInv, Called, Running
<1>2. Pushes(t)
  BY <1>1, TriggerPushes DEF TInv, RunsTypes, Trigger
<1> QED
  BY <1>2, PushesTInv DEF Trigger

\* A nested run comes up, or its caller's run has failed.
LEMMA NestKinds ==
    ASSUME TInv, NEW t \in Triggers, Nest(t)
    PROVE  Running(t) /\ (Pushes(t) \/ (Quiet(t) /\ Top(t).pc = "body" /\ t \notin hit))
<1>1. Running(t) /\ Top(t).pc = "body" /\ t \notin hit
  BY DEF Nest, At
<1>2. Top(t).calls \in Scenarios
  BY <1>1, TopIsFrame DEF Nest, TInv, Shape, Frames
<1>3. CASE Admitted(Top(t).calls)
  BY <1>1, <1>2, <1>3, NestPushes DEF Nest, TInv, RunsTypes
<1>4. CASE ~Admitted(Top(t).calls)
  <2>1. Goes(t, "record")
    BY <1>4 DEF Nest
  <2> QED
    BY <1>1, <2>1, GoesQuiet DEF TInv, Points, Bodies
<1> QED
  BY <1>1, <1>3, <1>4

LEMMA NestTInv ==
    ASSUME TInv, NEW t \in Triggers, Nest(t)
    PROVE  TInv'
<1>1. UNCHANGED <<registry, hit, made, runLock, runTask, queues, gates, runsBounds>> /\ t \in made
  BY NestKinds DEF Nest, TInv, Called
<1>2. CASE Pushes(t)
  BY <1>1, <1>2, PushesTInv
<1>3. CASE Quiet(t) /\ Top(t).pc = "body" /\ t \notin hit
  <2>1. RunsTypes'
    BY <1>1 DEF TInv, RunsTypes, registry, gates, runsBounds, queues
  <2> QED
    BY <1>1, <1>3, <2>1, QuietKeeps DEF TInv, queues
<1> QED
  BY <1>2, <1>3, NestKinds

\* The other steps leave the stacks alone.
LEMMA SameStacks ==
    ASSUME TInv, UNCHANGED <<stack, made, line, waiters>>, RunsTypes',
           hit' \subseteq {t \in Triggers : Running(t)}
    PROVE  TInv'
<1>1. Shape'
  BY DEF TInv, Shape, Below, Distinct
<1>2. Hits' /\ Called'
  BY DEF TInv, Hits, Called, Running
<1>3. Lines'
  BY SameLines DEF TInv, InLine, Running, Top
<1>4. Waiters'
  BY SameWaiters DEF TInv, Counted
<1> QED
  BY <1>1, <1>2, <1>3, <1>4 DEF TInv

LEMMA RunsOfFacts ==
    ASSUME TInv, NEW s \in Scenarios, NEW id \in RunsOf(s)
    PROVE  /\ id \in RunIds /\ id[1] \in Triggers /\ id[2] \in 1..Len(stack[id[1]])
           /\ Name(id[1], id[2]) = s /\ Running(id[1])
<1>1. PICK t \in Triggers, i \in Depth : id = <<t, i>>
  BY DEF RunsOf, RunIds
<1>2. id[1] = t /\ id[2] = i /\ Len(stack[t]) >= i /\ stack[t][i].s = s
  BY <1>1 DEF RunsOf
<1>3. Len(stack[t]) \in Nat /\ i \in Nat \ {0}
  BY RunsAssumption, FS_CardinalityType DEF TInv, Shape, Stacks, Depth
<1>4. i \in 1..Len(stack[t]) /\ Running(t)
  BY <1>2, <1>3 DEF Running
<1> QED
  BY <1>1, <1>2, <1>4 DEF RunsOf, Name

LEMMA WorldTInv ==
    ASSUME TInv,
           \/ \E t \in Triggers : Cut(t)
           \/ StopAll \/ ClosedDown \/ Open
           \/ \E s \in Scenarios : Close(s)
           \/ \E s \in Scenarios, callee \in Scenarios \union {Null} : Edit(s, callee)
           \/ UNCHANGED runsVars
    PROVE  TInv' /\ UNCHANGED <<stack, runTask, holder>>
<1>1. UNCHANGED <<stack, made, line, waiters, runLock, runTask, holder>>
  BY DEF Cut, StopAll, ClosedDown, Open, Close, Edit, runsVars, queues
<1>2. hit' \subseteq {t \in Triggers : Running(t)}
  <2>1. CASE \E t \in Triggers : Cut(t)
    BY <2>1 DEF Cut, TInv, Hits
  <2>2. CASE StopAll
    BY <2>2 DEF StopAll, Cancellable, TInv, Hits
  <2>3. CASE \E s \in Scenarios : Close(s)
    BY <2>3, RunsOfFacts DEF Close, TInv, Hits
  <2>4. CASE UNCHANGED hit
    BY <2>4 DEF TInv, Hits
  <2> QED
    BY <2>1, <2>2, <2>3, <2>4 DEF ClosedDown, Open, Edit, runsVars
<1>3. RunsTypes'
  <2>1. CASE \E t \in Triggers : Cut(t)
    BY <2>1, RunsAssumption DEF Cut, TInv, RunsTypes, registry, queues, gates
  <2>2. CASE StopAll \/ ClosedDown \/ Open
    BY <2>2 DEF StopAll, ClosedDown, Open, TInv, RunsTypes, registry, queues, runsBounds
  <2>3. CASE \E s \in Scenarios : Close(s)
    BY <2>3, RunsOfFacts DEF Close, TInv, RunsTypes, registry, queues, runsBounds
  <2>4. CASE \E s \in Scenarios, callee \in Scenarios \union {Null} : Edit(s, callee)
    <3>1. PICK s \in Scenarios, callee \in Scenarios \union {Null} : Edit(s, callee)
      BY <2>4
    <3>2. plan' \in Plans /\ Acyclic(plan)' /\ edits' \in 0..MaxEdits
      BY <3>1, RunsAssumption DEF Edit, TInv, RunsTypes, Plans
    <3> QED
      BY <3>1, <3>2 DEF Edit, TInv, RunsTypes, queues, gates
  <2>5. CASE UNCHANGED runsVars
    BY <2>5 DEF TInv, RunsTypes, runsVars, registry, queues, gates, runsBounds
  <2> QED
    BY <2>1, <2>2, <2>3, <2>4, <2>5
<1> QED
  BY <1>1, <1>2, <1>3, SameStacks

LEMMA NextTInv ==
    ASSUME TInv, [RunsNext]_runsVars
    PROVE  TInv'
<1>1. CASE \E t \in Triggers, s \in Scenarios : Trigger(t, s)
  BY <1>1, TriggerTInv
<1>2. CASE \E t \in Triggers : EnterQueued(t) \/ EnterTask(t) \/ QueueTurn(t)
  BY <1>2, EnterQueuedTInv, EnterTaskTInv, QueueTurnTInv
<1>3. CASE \E t \in Triggers : Nest(t)
  BY <1>3, NestTInv
<1>4. CASE \E t \in Triggers : Calm(t)
  BY <1>4, CalmTInv
<1> QED
  BY <1>1, <1>2, <1>3, <1>4, WorldTInv DEF RunsNext, Calm

LEMMA TypesInvariance == RunsSpec => []TInv
  BY InitTInv, NextTInv, PTL DEF RunsSpec

\* Every variable keeps its type: no registry has a cycle, no stack is deeper than one
\* frame more than there are scenarios, no line has anybody twice, and the counter of
\* a queue stays between nought and its limit.
THEOREM TypeCorrect == RunsSpec => []RunsTypeOK
<1>1. TInv => RunsTypeOK
  <2> SUFFICES ASSUME TInv
               PROVE  RunsTypeOK
    OBVIOUS
  <2>1. \A t \in Triggers : Len(stack[t]) \in 0..Cardinality(Depth) /\ Range(stack[t]) \subseteq Frames
    BY Depths DEF TInv, Shape, Stacks, Range
  <2>2. \A s \in Scenarios : Range(line[s]) \subseteq Triggers /\ IsInjective(line[s])
    BY DEF TInv, Lines, Range
  <2> QED
    BY <2>1, <2>2 DEF TInv, RunsTypeOK, RunsTypes, Hits, Waiters, Running
<1> QED
  BY <1>1, TypesInvariance, PTL

---------------------------------------------------------------------------
(* Exclusion: a queued run in its body holds its queue's lock, and is the only one of
   its stack; one of mode single is the run of its scenario's task.           *)

QueuedAlone ==
    \A t \in Triggers : \A i \in 1..Len(stack[t]) :
        Live(t, i) /\ mode[Name(t, i)] = "queued" =>
            /\ holder[Name(t, i)] = t
            /\ \A j \in 1..Len(stack[t]) : Live(t, j) /\ Name(t, j) = Name(t, i) => j = i

SingleAlone ==
    \A t \in Triggers : \A i \in 1..Len(stack[t]) :
        Live(t, i) /\ mode[Name(t, i)] = "single" => runTask[Name(t, i)] = <<t, i>>

\* A closed scenario has no runs but those that are waited for, then none.
ClosingInv ==
    /\ closed => blocked # {}
    /\ \A s \in blocked : RunsOf(s) \subseteq IF closed THEN {} ELSE closing

\* After the unload, whoever waits to come in is about to be cancelled.
StopInv ==
    stopping => \A t \in Triggers :
                    Running(t) /\ Top(t).pc \in {"enter", "queue"} => t \in hit

\* Only runs of queued scenarios wait in line.
QueuedInLine ==
    \A t \in Triggers : Running(t) /\ Top(t).pc = "queue" => mode[Top(t).s] = "queued"

Alone == QueuedInLine /\ QueuedAlone /\ SingleAlone

RunsIInv == TInv /\ Alone /\ ClosingInv /\ StopInv

LEMMA NamesOfFrames ==
    ASSUME Shape, NEW t \in Triggers, NEW i \in 1..Len(stack[t])
    PROVE  stack[t][i] \in Frames /\ Name(t, i) \in Scenarios
<1>1. stack[t] \in Seq(Frames)
  BY DEF Shape, Stacks
<1>2. stack[t][i] \in Frames
  BY <1>1
<1> QED
  BY <1>2 DEF Frames, Name

LEMMA TopNames ==
    ASSUME Shape, NEW t \in Triggers, Running(t)
    PROVE  /\ Len(stack[t]) \in 1..Len(stack[t])
           /\ Name(t, Len(stack[t])) = Top(t).s
           /\ Live(t, Len(stack[t])) <=> Top(t).pc \in Bodies
           /\ Top(t).s \in Scenarios
<1>1. PICK n \in Nat \ {0} : n = Len(stack[t])
  BY TopIsFrame DEF Shape
<1>2. Top(t) = stack[t][n] /\ Top(t) \in Frames /\ n \in 1..n
  BY <1>1, TopIsFrame DEF Shape
<1> QED
  BY <1>1, <1>2 DEF Name, Live, Frames

\* The frames keep their places and names, and none comes up.
SameFrames ==
    \A t \in Triggers : \A i \in 1..Len(stack'[t]) :
        i \in 1..Len(stack[t]) /\ Name(t, i)' = Name(t, i)

\* None but the last frame of t starts its body.
StartsOnly(t) ==
    \A u \in Triggers : \A i \in 1..Len(stack'[u]) :
        Live(u, i)' => Live(u, i) \/ (u = t /\ i = Len(stack[t]))

\* No frame starts its body.
NoStarts ==
    \A u \in Triggers : \A i \in 1..Len(stack'[u]) :
        Live(u, i)' => i \in 1..Len(stack[u]) /\ Live(u, i) /\ Name(u, i)' = Name(u, i)

LEMMA FewerFrames ==
    ASSUME Fewer
    PROVE  SameFrames /\ NoStarts
  BY DEF Fewer, SameFrames, NoStarts

LEMMA PushesStarts ==
    ASSUME Shape, NEW t \in Triggers, Pushes(t)
    PROVE  NoStarts
  BY PushesNames DEF NoStarts

LEMMA StartsFrames ==
    ASSUME Shape, NEW t \in Triggers, Starts(t)
    PROVE  SameFrames /\ StartsOnly(t)
<1>1. PICK f \in Frames : Stays(t, f)
  BY DEF Starts
<1>2. PICK n \in Nat \ {0} : n = Len(stack[t])
  BY TopIsFrame DEF Starts, Shape
<1>3. /\ \A u \in Triggers \ {t} : stack'[u] = stack[u]
      /\ Len(stack'[t]) = n /\ stack'[t][n] = f /\ f.s = stack[t][n].s
      /\ \A i \in 1..n - 1 : stack'[t][i] = stack[t][i]
  BY <1>1, <1>2, TopIsFrame DEF Stays, Retops, Starts, Shape
<1>4. \A i \in 1..n : i \in 1..n - 1 \/ i = n
  BY <1>2
<1>5. ASSUME NEW u \in Triggers, NEW i \in 1..Len(stack'[u])
      PROVE  /\ i \in 1..Len(stack[u]) /\ Name(u, i)' = Name(u, i)
             /\ Live(u, i)' => Live(u, i) \/ (u = t /\ i = n)
  <2>1. CASE u # t
    BY <1>3, <2>1 DEF Name, Live
  <2>2. CASE u = t /\ i \in 1..n - 1
    BY <1>2, <1>3, <2>2 DEF Name, Live
  <2>3. CASE u = t /\ i = n
    BY <1>2, <1>3, <2>3 DEF Name
  <2> QED
    BY <1>3, <1>4, <2>1, <2>2, <2>3
<1> QED
  BY <1>2, <1>5 DEF SameFrames, StartsOnly

LEMMA WaitsFrames ==
    ASSUME Shape, NEW t \in Triggers, Waits(t)
    PROVE  SameFrames /\ NoStarts
<1>1. PICK f \in Frames : Stays(t, f) /\ f.pc = "queue"
  BY DEF Waits
<1>2. PICK n \in Nat \ {0} : n = Len(stack[t])
  BY TopIsFrame DEF Waits, Shape
<1>3. /\ \A u \in Triggers \ {t} : stack'[u] = stack[u]
      /\ Len(stack'[t]) = n /\ stack'[t][n] = f /\ f.s = stack[t][n].s
      /\ \A i \in 1..n - 1 : stack'[t][i] = stack[t][i]
  BY <1>1, <1>2, TopIsFrame DEF Stays, Retops, Waits, Shape
<1>4. \A i \in 1..n : i \in 1..n - 1 \/ i = n
  BY <1>2
<1>5. ASSUME NEW u \in Triggers, NEW i \in 1..Len(stack'[u])
      PROVE  /\ i \in 1..Len(stack[u]) /\ Name(u, i)' = Name(u, i)
             /\ Live(u, i)' => Live(u, i)
  <2>1. CASE u # t
    BY <1>3, <2>1 DEF Name, Live
  <2>2. CASE u = t /\ i \in 1..n - 1
    BY <1>2, <1>3, <2>2 DEF Name, Live
  <2>3. CASE u = t /\ i = n
    BY <1>1, <1>2, <1>3, <2>3 DEF Name, Live, Bodies
  <2> QED
    BY <1>3, <1>4, <2>1, <2>2, <2>3
<1> QED
  BY <1>5 DEF SameFrames, NoStarts

---------------------------------------------------------------------------
(* Steps in which no body starts.                                            *)

LEMMA NoStartsQueued ==
    ASSUME QueuedAlone, NoStarts, UNCHANGED mode,
           \A t \in Triggers : \A i \in 1..Len(stack'[t]) :
              Live(t, i)' /\ mode[Name(t, i)] = "queued" => holder'[Name(t, i)] = holder[Name(t, i)]
    PROVE  QueuedAlone'
<1> SUFFICES ASSUME NEW t \in Triggers, NEW i \in 1..Len(stack'[t]),
                    Live(t, i)', mode'[Name(t, i)'] = "queued"
             PROVE  /\ holder'[Name(t, i)'] = t
                    /\ \A j \in 1..Len(stack'[t]) :
                          Live(t, j)' /\ Name(t, j)' = Name(t, i)' => j = i
  BY DEF QueuedAlone
<1>1. i \in 1..Len(stack[t]) /\ Live(t, i) /\ Name(t, i)' = Name(t, i)
  BY DEF NoStarts
<1>2. \A j \in 1..Len(stack'[t]) : Live(t, j)' =>
          j \in 1..Len(stack[t]) /\ Live(t, j) /\ Name(t, j)' = Name(t, j)
  BY DEF NoStarts
<1> QED
  BY <1>1, <1>2 DEF QueuedAlone

LEMMA NoStartsSingle ==
    ASSUME SingleAlone, NoStarts, UNCHANGED mode,
           \A t \in Triggers : \A i \in 1..Len(stack'[t]) :
              Live(t, i)' => \/ runTask'[Name(t, i)] = runTask[Name(t, i)]
                             \/ mode[Name(t, i)] # "single"
    PROVE  SingleAlone'
<1> SUFFICES ASSUME NEW t \in Triggers, NEW i \in 1..Len(stack'[t]),
                    Live(t, i)', mode'[Name(t, i)'] = "single"
             PROVE  runTask'[Name(t, i)'] = <<t, i>>
  BY DEF SingleAlone
<1>1. i \in 1..Len(stack[t]) /\ Live(t, i) /\ Name(t, i)' = Name(t, i)
  BY DEF NoStarts
<1> QED
  BY <1>1 DEF SingleAlone

\* The last frame of t is not in its body any more.
OverNow(t) == \A i \in 1..Len(stack'[t]) : Live(t, i)' => i # Len(stack[t])

LEMMA PopsOver ==
    ASSUME Shape, NEW t \in Triggers, Running(t), Pops(t, "act")
    PROVE  OverNow(t)
<1>1. PICK n \in Nat : n = Len(stack[t])
  BY TopIsFrame DEF Shape
<1>2. Len(stack'[t]) = n - 1
  BY <1>1 DEF Pops
<1>3. n \notin 1..n - 1
  BY <1>1
<1> QED
  BY <1>1, <1>2, <1>3 DEF OverNow

LEMMA LeavesOver ==
    ASSUME Shape, NEW t \in Triggers, Running(t), NEW raises \in BOOLEAN, Leaves(t, raises)
    PROVE  OverNow(t)
<1> DEFINE f == [Top(t) EXCEPT !.pc = "leave", !.raises = raises]
<1>1. PICK n \in Nat : n = Len(stack[t])
  BY TopIsFrame DEF Shape
<1>2. Top(t) \in Frames
  BY TopIsFrame DEF Shape
<1>3. f.pc \notin Bodies
  BY <1>2 DEF Frames, Bodies
<1>4. stack'[t][n] = f
  BY <1>1, LeavesFacts DEF Shape, Retops
<1> HIDE DEF f
<1> QED
  BY <1>1, <1>3, <1>4 DEF OverNow, Live

LEMMA ThrownOutOver ==
    ASSUME Shape, NEW t \in Triggers, Running(t), ThrownOut(t)
    PROVE  OverNow(t)
  BY LeavesOver, PopsOver, PopsQuiet DEF ThrownOut

\* Who gives a queue's lock back is over, and was the only one to hold it.
LEMMA UnlockedQueued ==
    ASSUME TInv, QueuedAlone, NEW t \in Triggers, Running(t), Top(t).pc \in Bodies,
           mode[Top(t).s] = "queued", NoStarts, OverNow(t), UNCHANGED mode, Unlocked(Top(t).s)
    PROVE  QueuedAlone'
<1>1. PICK s \in Scenarios : s = Top(t).s
  BY TopNames DEF TInv
<1>2. PICK n \in Nat : n = Len(stack[t])
  BY TopIsFrame DEF TInv, Shape
<1>3. n \in 1..Len(stack[t]) /\ Live(t, n) /\ Name(t, n) = s
  BY <1>1, <1>2, TopNames DEF TInv
<1>4. holder[s] = t /\ \A j \in 1..Len(stack[t]) : Live(t, j) /\ Name(t, j) = s => j = n
  BY <1>1, <1>3 DEF QueuedAlone
<1>5. holder' = [holder EXCEPT ![s] = Null] /\ holder \in [Scenarios -> Triggers \union {Null}]
  BY <1>1 DEF Unlocked, TInv, RunsTypes
<1>6. ASSUME NEW u \in Triggers, NEW i \in 1..Len(stack'[u]), Live(u, i)',
             mode[Name(u, i)] = "queued"
      PROVE  holder'[Name(u, i)] = holder[Name(u, i)]
  <2>1. i \in 1..Len(stack[u]) /\ Live(u, i)
    BY <1>6 DEF NoStarts
  <2>2. Name(u, i) # s
    <3>1. SUFFICES ASSUME Name(u, i) = s PROVE FALSE
      OBVIOUS
    <3>2. holder[s] = u
      BY <1>6, <2>1, <3>1 DEF QueuedAlone
    <3>3. u = t /\ i = n
      BY <1>4, <2>1, <3>1, <3>2
    <3> QED
      BY <1>2, <1>6, <3>3 DEF OverNow
  <2>3. Name(u, i) \in Scenarios
    BY <2>1, NamesOfFrames DEF TInv
  <2> QED
    BY <1>5, <2>2, <2>3
<1> QED
  BY <1>6, NoStartsQueued

LEMMA EndsQueued ==
    ASSUME TInv, QueuedAlone, NEW t \in Triggers, Act(t) \/ Record(t), NoStarts
    PROVE  QueuedAlone'
<1>1. Running(t) /\ Top(t).pc \in Bodies /\ UNCHANGED mode
  BY DEF Act, Record, EndsBody, At, Bodies, registry
<1>2. CASE mode[Top(t).s] = "queued"
  <2>1. Unlocked(Top(t).s) /\ (Answers(t) \/ Leaves(t, FALSE))
    BY <1>2 DEF Act, Record, EndsBody
  <2>2. OverNow(t)
    BY <1>1, <2>1, PopsQuiet, PopsOver, LeavesOver DEF TInv
  <2> QED
    BY <1>1, <1>2, <2>1, <2>2, UnlockedQueued
<1>3. CASE mode[Top(t).s] # "queued"
  <2>1. UNCHANGED holder
    BY <1>3 DEF Act, Record, EndsBody
  <2> QED
    BY <1>1, <2>1, NoStartsQueued
<1> QED
  BY <1>2, <1>3

LEMMA ThrowBodyQueued ==
    ASSUME TInv, QueuedAlone, NEW t \in Triggers, ThrowBody(t), NoStarts
    PROVE  QueuedAlone'
<1>1. Running(t) /\ Top(t).pc \in Bodies /\ UNCHANGED mode
  BY DEF ThrowBody, TInv, Hits, registry
<1>2. CASE mode[Top(t).s] = "queued"
  <2>1. Unlocked(Top(t).s) /\ ThrownOut(t)
    BY <1>2 DEF ThrowBody
  <2>2. OverNow(t)
    BY <1>1, <2>1, ThrownOutOver DEF TInv
  <2> QED
    BY <1>1, <1>2, <2>1, <2>2, UnlockedQueued
<1>3. CASE mode[Top(t).s] # "queued"
  <2>1. UNCHANGED holder
    BY <1>3 DEF ThrowBody
  <2> QED
    BY <1>1, <2>1, NoStartsQueued
<1> QED
  BY <1>2, <1>3

LEMMA CalmQueued ==
    ASSUME TInv, QueuedAlone, NEW t \in Triggers, Calm(t)
    PROVE  QueuedAlone'
<1>1. NoStarts
  BY CalmQuiet, QuietFacts, FewerFrames DEF TInv
<1>2. CASE Act(t) \/ Record(t)
  BY <1>1, <1>2, EndsQueued
<1>3. CASE ThrowBody(t)
  BY <1>1, <1>3, ThrowBodyQueued
<1>4. CASE ~(Act(t) \/ Record(t) \/ ThrowBody(t))
  <2>1. UNCHANGED <<mode, holder>>
    BY <1>4 DEF Calm, Skipped, NoNest, Caught, Leave, ThrowWaiting, ThrowFinal, registry, queues
  <2> QED
    BY <1>1, <2>1, NoStartsQueued
<1> QED
  BY <1>2, <1>3, <1>4

\* Who takes back its scenario's task is past its body.
LEMMA CalmSingle ==
    ASSUME TInv, SingleAlone, NEW t \in Triggers, Calm(t)
    PROVE  SingleAlone'
<1>1. NoStarts
  BY CalmQuiet, QuietFacts, FewerFrames DEF TInv
<1>2. CASE Leave(t)
  <2>1. Running(t) /\ Top(t).pc = "leave" /\ UNCHANGED mode
    BY <1>2 DEF Leave, At, registry
  <2>2. PICK s \in Scenarios : s = Top(t).s
    BY <2>1, TopNames DEF TInv
  <2>3. runTask' \in {runTask, [runTask EXCEPT ![s] = Null]}
        /\ (runTask' # runTask => runTask[s] = Me(t))
    BY <1>2, <2>2 DEF Leave
  <2>4. ASSUME NEW u \in Triggers, NEW i \in 1..Len(stack'[u]), Live(u, i)'
        PROVE  runTask'[Name(u, i)] = runTask[Name(u, i)] \/ mode[Name(u, i)] # "single"
    <3>1. i \in 1..Len(stack[u]) /\ Live(u, i)
      BY <1>1, <2>4 DEF NoStarts
    <3>2. CASE Name(u, i) = s /\ runTask[s] = Me(t) /\ mode[s] = "single"
      <4>1. <<u, i>> = <<t, Len(stack[t])>>
        BY <3>1, <3>2 DEF SingleAlone, Me
      <4>2. u = t /\ i = Len(stack[t])
        BY <4>1
      <4> QED
        BY <2>1, <3>1, <4>2, TopNames DEF TInv, Bodies
    <3>3. CASE Name(u, i) # s
      BY <2>3, <3>1, <3>3, NamesOfFrames DEF TInv, RunsTypes
    <3> QED
      BY <2>3, <3>2, <3>3
  <2> QED
    BY <1>1, <2>1, <2>4, NoStartsSingle
<1>3. CASE ~Leave(t)
  <2>1. UNCHANGED <<mode, runTask>>
    BY <1>3 DEF Calm, Skipped, NoNest, Act, Record, EndsBody, Caught, ThrowWaiting, ThrowBody,
       ThrowFinal, registry
  <2> QED
    BY <1>1, <2>1, NoStartsSingle
<1> QED
  BY <1>2, <1>3
---------------------------------------------------------------------------
(* Steps in which the last frame of t starts its body.                       *)

\* A queued run that takes its queue's lock: nobody had it.
LEMMA StartsQueuedAlone ==
    ASSUME TInv, QueuedAlone, NEW t \in Triggers, Starts(t), NEW s, s = Top(t).s,
           holder[s] = Null, holder' = [holder EXCEPT ![s] = t], UNCHANGED mode
    PROVE  QueuedAlone'
<1>1. Running(t) /\ SameFrames /\ StartsOnly(t)
  BY StartsFrames DEF TInv, Starts
<1>2. PICK n \in Nat : n = Len(stack[t])
  BY <1>1, TopIsFrame DEF TInv, Shape
<1>3. Name(t, n) = s /\ s \in Scenarios
  BY <1>1, <1>2, TopNames DEF TInv
<1>4. ASSUME NEW u \in Triggers, NEW i \in 1..Len(stack[u]), Live(u, i), Name(u, i) = s,
             mode[s] = "queued"
      PROVE  FALSE
  BY <1>4, RunsAssumption DEF QueuedAlone
<1>5. holder'[s] = t /\ \A z \in Scenarios \ {s} : holder'[z] = holder[z]
  BY <1>3 DEF TInv, RunsTypes
<1> SUFFICES ASSUME NEW u \in Triggers, NEW i \in 1..Len(stack'[u]),
                    Live(u, i)', mode'[Name(u, i)'] = "queued"
             PROVE  /\ holder'[Name(u, i)'] = u
                    /\ \A j \in 1..Len(stack'[u]) :
                          Live(u, j)' /\ Name(u, j)' = Name(u, i)' => j = i
  BY DEF QueuedAlone
<1>6. i \in 1..Len(stack[u]) /\ Name(u, i)' = Name(u, i)
      /\ (Live(u, i) \/ (u = t /\ i = n)) /\ Name(u, i) \in Scenarios
  BY <1>1, <1>2, NamesOfFrames DEF SameFrames, StartsOnly, TInv
<1>7. \A j \in 1..Len(stack'[u]) : Live(u, j)' =>
          j \in 1..Len(stack[u]) /\ Name(u, j)' = Name(u, j)
          /\ (Live(u, j) \/ (u = t /\ j = n))
  BY <1>1, <1>2 DEF SameFrames, StartsOnly
<1>8. CASE Name(u, i) = s
  <2>1. u = t /\ i = n
    BY <1>4, <1>6, <1>8
  <2>2. \A j \in 1..Len(stack'[u]) : Live(u, j)' /\ Name(u, j)' = s => j = n
    BY <1>4, <1>6, <1>7, <1>8
  <2> QED
    BY <1>5, <1>6, <1>8, <2>1, <2>2
<1>9. CASE Name(u, i) # s
  <2>1. Live(u, i)
    BY <1>3, <1>6, <1>9
  <2>2. \A j \in 1..Len(stack'[u]) : Live(u, j)' /\ Name(u, j)' = Name(u, i) => Live(u, j)
    BY <1>3, <1>7, <1>9
  <2> QED
    BY <1>5, <1>6, <1>7, <1>9, <2>1, <2>2 DEF QueuedAlone
<1> QED
  BY <1>8, <1>9

\* A run of another mode starts: the queues are as they were.
LEMMA StartsOthersQueued ==
    ASSUME TInv, QueuedAlone, NEW t \in Triggers, Starts(t), mode[Top(t).s] # "queued",
           UNCHANGED <<mode, holder>>
    PROVE  QueuedAlone'
<1>1. Running(t) /\ SameFrames /\ StartsOnly(t)
  BY StartsFrames DEF TInv, Starts
<1>2. PICK n \in Nat : n = Len(stack[t])
  BY <1>1, TopIsFrame DEF TInv, Shape
<1>3. mode[Name(t, n)] # "queued"
  BY <1>1, <1>2, TopNames DEF TInv
<1>4. \A u \in Triggers : \A i \in 1..Len(stack'[u]) :
          Live(u, i)' /\ mode[Name(u, i)'] = "queued" =>
             i \in 1..Len(stack[u]) /\ Live(u, i) /\ Name(u, i)' = Name(u, i)
  BY <1>1, <1>2, <1>3 DEF SameFrames, StartsOnly
<1> QED
  BY <1>4 DEF QueuedAlone

LEMMA StartsSingle ==
    ASSUME TInv, SingleAlone, NEW t \in Triggers, Starts(t), mode[Top(t).s] = "queued",
           UNCHANGED <<mode, runTask>>
    PROVE  SingleAlone'
<1>1. Running(t) /\ SameFrames /\ StartsOnly(t)
  BY StartsFrames DEF TInv, Starts
<1>2. PICK n \in Nat : n = Len(stack[t])
  BY <1>1, TopIsFrame DEF TInv, Shape
<1>3. mode[Name(t, n)] # "single"
  BY <1>1, <1>2, TopNames DEF TInv
<1>4. \A u \in Triggers : \A i \in 1..Len(stack'[u]) :
          Live(u, i)' /\ mode[Name(u, i)'] = "single" =>
             i \in 1..Len(stack[u]) /\ Live(u, i) /\ Name(u, i)' = Name(u, i)
  BY <1>1, <1>2, <1>3 DEF SameFrames, StartsOnly
<1> QED
  BY <1>4 DEF SingleAlone

\* The run of mode single that starts finds its scenario's task done, so that no other
\* run of the scenario is in its body.
LEMMA StartsTaskSingle ==
    ASSUME TInv, SingleAlone, NEW t \in Triggers, Starts(t), NEW s, s = Top(t).s,
           ~(mode[s] = "single" /\ Busy(s)), runTask' = [runTask EXCEPT ![s] = Me(t)],
           UNCHANGED mode
    PROVE  SingleAlone'
<1>1. Running(t) /\ SameFrames /\ StartsOnly(t)
  BY StartsFrames DEF TInv, Starts
<1>2. PICK n \in Nat : n = Len(stack[t])
  BY <1>1, TopIsFrame DEF TInv, Shape
<1>3. Name(t, n) = s /\ s \in Scenarios /\ Me(t) = <<t, n>>
  BY <1>1, <1>2, TopNames DEF TInv, Me
<1>4. ASSUME NEW u \in Triggers, NEW i \in 1..Len(stack[u]), Live(u, i), Name(u, i) = s,
             mode[s] = "single"
      PROVE  FALSE
  <2>1. runTask[s] = <<u, i>>
    BY <1>4 DEF SingleAlone
  <2>2. Len(stack[u]) \in Nat
    BY DEF TInv, Shape, Stacks
  <2>3. Alive(<<u, i>>)
    BY <1>4, <2>2, AliveFrames DEF TInv
  <2> QED
    BY <1>4, <2>1, <2>3 DEF Busy
<1>5. runTask'[s] = <<t, n>> /\ \A z \in Scenarios \ {s} : runTask'[z] = runTask[z]
  BY <1>3 DEF TInv, RunsTypes
<1> SUFFICES ASSUME NEW u \in Triggers, NEW i \in 1..Len(stack'[u]),
                    Live(u, i)', mode'[Name(u, i)'] = "single"
             PROVE  runTask'[Name(u, i)'] = <<u, i>>
  BY DEF SingleAlone
<1>6. i \in 1..Len(stack[u]) /\ Name(u, i)' = Name(u, i)
      /\ (Live(u, i) \/ (u = t /\ i = n)) /\ Name(u, i) \in Scenarios
  BY <1>1, <1>2, NamesOfFrames DEF SameFrames, StartsOnly, TInv
<1>7. CASE Name(u, i) = s
  BY <1>4, <1>5, <1>6, <1>7
<1>8. CASE Name(u, i) # s
  BY <1>3, <1>5, <1>6, <1>8 DEF SingleAlone
<1> QED
  BY <1>7, <1>8

---------------------------------------------------------------------------
(* Each step keeps the runs alone.                                           *)

\* No last frame comes up in line.
LEMMA RestsInLine ==
    ASSUME QueuedInLine, NEW t \in Triggers, \A u \in Triggers \ {t} : stack'[u] = stack[u],
           Rests(t)' \/ Top(t)'.pc # "queue", UNCHANGED mode
    PROVE  QueuedInLine'
<1> SUFFICES ASSUME NEW u \in Triggers, Running(u)', Top(u)'.pc = "queue"
             PROVE  mode'[Top(u)'.s] = "queued"
  BY DEF QueuedInLine
<1>1. u # t
  BY DEF Rests
<1> QED
  BY <1>1 DEF QueuedInLine, Running, Top

LEMMA CalmAlone ==
    ASSUME TInv, Alone, NEW t \in Triggers, Calm(t)
    PROVE  Alone'
<1>1. UNCHANGED mode
  BY DEF Calm, Skipped, NoNest, Act, Record, EndsBody, Caught, Leave, ThrowWaiting, ThrowBody,
     ThrowFinal, registry
<1>2. Rests(t)' /\ \A u \in Triggers \ {t} : stack'[u] = stack[u]
  BY CalmQuiet, QuietTop DEF TInv
<1> QED
  BY <1>1, <1>2, RestsInLine, CalmQueued, CalmSingle DEF Alone

LEMMA EnterQueuedAlone ==
    ASSUME TInv, Alone, NEW t \in Triggers, EnterQueued(t)
    PROVE  Alone'
<1>1. PICK s \in Scenarios : s = Top(t).s
  BY EnterQueuedKinds
<1>2. UNCHANGED <<mode, runTask>> /\ mode[s] = "queued" /\ Running(t)
  BY <1>1, EnterQueuedKinds DEF EnterQueued, registry
<1>3. CASE Quiet(t) /\ UNCHANGED queues
  <2>1. NoStarts /\ UNCHANGED holder
    BY <1>3, QuietFacts, FewerFrames DEF TInv, queues
  <2>2. Rests(t)' /\ \A u \in Triggers \ {t} : stack'[u] = stack[u]
    BY <1>3, QuietTop DEF TInv
  <2> QED
    BY <1>2, <2>1, <2>2, NoStartsQueued, NoStartsSingle, RestsInLine DEF Alone
<1>4. CASE Starts(t) /\ holder[s] = Null /\ holder' = [holder EXCEPT ![s] = t]
           /\ UNCHANGED waiters
  <2>1. UNCHANGED made
    BY DEF EnterQueued
  <2> QED
    BY <1>1, <1>2, <1>4, <2>1, StartsQueuedAlone, StartsSingle, StartsKeeps, RestsInLine DEF Alone
<1>5. CASE Waits(t) /\ UNCHANGED holder
  <2>1. NoStarts
    BY <1>5, WaitsFrames DEF TInv
  <2>2. QueuedInLine'
    <3>1. PICK f \in Frames : Stays(t, f)
      BY <1>5 DEF Waits
    <3>2. Top(t)' = f /\ f.s = s /\ \A u \in Triggers \ {t} : stack'[u] = stack[u]
      BY <1>1, <1>2, <3>1, StaysTop DEF TInv, Stays, Retops
    <3> SUFFICES ASSUME NEW u \in Triggers, Running(u)', Top(u)'.pc = "queue"
                 PROVE  mode'[Top(u)'.s] = "queued"
      BY DEF QueuedInLine
    <3>3. CASE u = t
      BY <1>2, <3>2, <3>3
    <3>4. CASE u # t
      BY <1>2, <3>2, <3>4 DEF Alone, QueuedInLine, Running, Top
    <3> QED
      BY <3>3, <3>4
  <2> QED
    BY <1>2, <1>5, <2>1, <2>2, NoStartsQueued, NoStartsSingle DEF Alone
<1> QED
  BY <1>1, <1>3, <1>4, <1>5, EnterQueuedKinds

LEMMA EnterTaskAlone ==
    ASSUME TInv, Alone, NEW t \in Triggers, EnterTask(t)
    PROVE  Alone'
<1>1. PICK s \in Scenarios : s = Top(t).s
  BY EnterTaskKinds
<1>2. UNCHANGED <<mode, holder, made, waiters>> /\ mode[s] # "queued"
  BY <1>1 DEF EnterTask, registry, queues
<1>3. CASE Quiet(t) /\ UNCHANGED runTask
  <2>1. NoStarts
    BY <1>3, QuietFacts, FewerFrames DEF TInv
  <2>2. Rests(t)' /\ \A u \in Triggers \ {t} : stack'[u] = stack[u]
    BY <1>3, QuietTop DEF TInv
  <2> QED
    BY <1>2, <1>3, <2>1, <2>2, NoStartsQueued, NoStartsSingle, RestsInLine DEF Alone
<1>4. CASE Starts(t) /\ ~(mode[s] = "single" /\ Busy(s))
           /\ runTask' = [runTask EXCEPT ![s] = Me(t)]
  BY <1>1, <1>2, <1>4, StartsOthersQueued, StartsTaskSingle, StartsKeeps, RestsInLine DEF Alone
<1> QED
  BY <1>1, <1>3, <1>4, EnterTaskKinds

LEMMA QueueTurnAlone ==
    ASSUME TInv, Alone, NEW t \in Triggers, QueueTurn(t)
    PROVE  Alone'
<1>1. Starts(t) /\ Running(t) /\ Top(t).pc = "queue"
  BY StartsQueued DEF TInv, QueueTurn, At
<1>2. PICK s \in Scenarios : s = Top(t).s
  BY <1>1, TopNames DEF TInv
<1>3. mode[s] = "queued"
  BY <1>1, <1>2 DEF Alone, QueuedInLine
<1>4. UNCHANGED <<mode, runTask, made, waiters>> /\ holder[s] = Null
      /\ holder' = [holder EXCEPT ![s] = t]
  BY <1>2 DEF QueueTurn, registry
<1> QED
  BY <1>1, <1>2, <1>3, <1>4, StartsQueuedAlone, StartsSingle, StartsKeeps, RestsInLine DEF Alone

LEMMA PushesAlone ==
    ASSUME TInv, Alone, NEW t \in Triggers, Pushes(t), UNCHANGED <<mode, holder, runTask>>
    PROVE  Alone'
<1>1. NoStarts
  BY PushesStarts DEF TInv
<1>2. Top(t)'.pc # "queue" /\ \A u \in Triggers \ {t} : stack'[u] = stack[u]
  BY PushesTop DEF TInv, Pushes
<1> QED
  BY <1>1, <1>2, NoStartsQueued, NoStartsSingle, RestsInLine DEF Alone

LEMMA NestAlone ==
    ASSUME TInv, Alone, NEW t \in Triggers, Nest(t)
    PROVE  Alone'
<1>1. UNCHANGED <<mode, holder, runTask>>
  BY DEF Nest, registry, queues
<1>2. CASE Pushes(t)
  BY <1>1, <1>2, PushesAlone
<1>3. CASE Quiet(t)
  <2>1. NoStarts
    BY <1>3, QuietFacts, FewerFrames DEF TInv
  <2>2. Rests(t)' /\ \A u \in Triggers \ {t} : stack'[u] = stack[u]
    BY <1>3, QuietTop DEF TInv
  <2> QED
    BY <1>1, <2>1, <2>2, NoStartsQueued, NoStartsSingle, RestsInLine DEF Alone
<1> QED
  BY <1>2, <1>3, NestKinds

LEMMA SameAlone ==
    ASSUME Alone, UNCHANGED <<mode, stack, holder, runTask>>
    PROVE  Alone'
<1>1. QueuedInLine'
  BY DEF Alone, QueuedInLine, Running, Top
<1>2. QueuedAlone'
  BY DEF Alone, QueuedAlone, Live, Name
<1>3. SingleAlone'
  BY DEF Alone, SingleAlone, Live, Name
<1> QED
  BY <1>1, <1>2, <1>3 DEF Alone

---------------------------------------------------------------------------
(* A closed scenario.                                                        *)

\* A frame of a name is a run of its scenario.
LEMMA RunsOfFrames ==
    ASSUME Shape, NEW s, NEW t \in Triggers, NEW i \in Depth
    PROVE  <<t, i>> \in RunsOf(s) <=> i \in 1..Len(stack[t]) /\ Name(t, i) = s
<1>1. <<t, i>>[1] = t /\ <<t, i>>[2] = i /\ <<t, i>> \in RunIds
  BY DEF RunIds
<1>2. Len(stack[t]) \in Nat /\ i \in Nat \ {0}
  BY RunsAssumption, FS_CardinalityType DEF Shape, Stacks, Depth
<1> QED
  BY <1>1, <1>2 DEF RunsOf, Name

LEMMA ShrinkRuns ==
    ASSUME Shape, Shape', NEW s,
           \A t \in Triggers : \A i \in 1..Len(stack'[t]) :
              Name(t, i)' = s => i \in 1..Len(stack[t]) /\ Name(t, i) = s
    PROVE  RunsOf(s)' \subseteq RunsOf(s)
<1> SUFFICES ASSUME NEW id \in RunIds, Len(stack'[id[1]]) >= id[2], stack'[id[1]][id[2]].s = s
             PROVE  id \in RunsOf(s)
  BY DEF RunsOf
<1>1. PICK t \in Triggers, i \in Depth : id = <<t, i>>
  BY DEF RunIds
<1>2. id[1] = t /\ id[2] = i
  BY <1>1
<1>3. Len(stack'[t]) \in Nat /\ i \in Nat \ {0}
  BY RunsAssumption, FS_CardinalityType DEF Shape, Stacks, Depth
<1>4. i \in 1..Len(stack'[t]) /\ Name(t, i)' = s
  BY <1>2, <1>3 DEF Name
<1> QED
  BY <1>1, <1>4, RunsOfFrames

LEMMA FramesClosing ==
    ASSUME Shape, Shape', ClosingInv, SameFrames, UNCHANGED gates
    PROVE  ClosingInv'
<1>1. \A s : RunsOf(s)' \subseteq RunsOf(s)
  <2> TAKE s
  <2> QED
    BY ShrinkRuns DEF SameFrames
<1> QED
  BY <1>1 DEF ClosingInv, gates

LEMMA PushesClosing ==
    ASSUME Shape, Shape', ClosingInv, NEW t \in Triggers, Pushes(t), UNCHANGED gates
    PROVE  ClosingInv'
<1>1. \A s \in blocked : RunsOf(s)' \subseteq RunsOf(s)
  <2> TAKE s \in blocked
  <2>1. ASSUME NEW u \in Triggers, NEW i \in 1..Len(stack'[u]), Name(u, i)' = s
        PROVE  i \in 1..Len(stack[u]) /\ Name(u, i) = s
    BY <2>1, PushesNames DEF Admitted
  <2> QED
    BY <2>1, ShrinkRuns
<1> QED
  BY <1>1 DEF ClosingInv, gates

LEMMA WorldClosing ==
    ASSUME TInv, ClosingInv,
           \/ \E t \in Triggers : Cut(t)
           \/ StopAll \/ ClosedDown \/ Open
           \/ \E s \in Scenarios : Close(s)
           \/ \E s \in Scenarios, callee \in Scenarios \union {Null} : Edit(s, callee)
           \/ UNCHANGED runsVars
    PROVE  ClosingInv'
<1>1. \A s : RunsOf(s)' = RunsOf(s)
  BY WorldTInv DEF RunsOf
<1>2. CASE \E s \in Scenarios : Close(s)
  BY <1>1, <1>2 DEF Close, ClosingInv
<1>3. CASE ClosedDown
  <2>1. \A s \in blocked : RunsOf(s) \subseteq closing
    BY <1>3 DEF ClosedDown, ClosingInv
  <2>2. ASSUME NEW s \in blocked, NEW id \in RunsOf(s)
        PROVE  FALSE
    <3>1. id[2] \in 1..Len(stack[id[1]]) /\ Len(stack[id[1]]) < id[2] /\ Len(stack[id[1]]) \in Nat
      BY <1>3, <2>1, RunsOfFacts DEF ClosedDown, TInv, RunsTypes, Shape, Stacks
    <3> QED
      BY <3>1
  <2> QED
    BY <1>1, <1>3, <2>2 DEF ClosedDown, ClosingInv
<1>4. CASE Open
  BY <1>4 DEF Open, ClosingInv
<1>5. CASE UNCHANGED <<blocked, closing, closed>>
  BY <1>1, <1>5 DEF ClosingInv
<1> QED
  BY <1>2, <1>3, <1>4, <1>5 DEF Cut, StopAll, Edit, runsVars, gates

---------------------------------------------------------------------------
(* After the unload.                                                         *)

\* Nobody is let in: who came is about to be cancelled, who comes is not admitted.
LEMMA StopRefuses ==
    ASSUME StopInv, stopping
    PROVE  /\ \A t \in Triggers : ~EnterQueued(t) /\ ~EnterTask(t) /\ ~QueueTurn(t) /\ ~Pushes(t)
           /\ \A t \in Triggers, s \in Scenarios : ~Trigger(t, s)
  BY DEF StopInv, EnterQueued, EnterTask, QueueTurn, At, Pushes, Admitted, Trigger

LEMMA RestsStop ==
    ASSUME StopInv, NEW t \in Triggers, Rests(t)', \A u \in Triggers \ {t} : stack'[u] = stack[u],
           hit \ {t} \subseteq hit', UNCHANGED stopping
    PROVE  StopInv'
<1> SUFFICES ASSUME stopping, NEW u \in Triggers, Running(u)', Top(u)'.pc \in {"enter", "queue"}
             PROVE  u \in hit'
  BY DEF StopInv
<1>1. u # t
  BY DEF Rests
<1>2. Running(u) /\ Top(u).pc \in {"enter", "queue"}
  BY <1>1 DEF Running, Top
<1> QED
  BY <1>1, <1>2 DEF StopInv

LEMMA CalmStop ==
    ASSUME TInv, StopInv, NEW t \in Triggers, Calm(t)
    PROVE  StopInv'
<1>1. Rests(t)' /\ \A u \in Triggers \ {t} : stack'[u] = stack[u]
  BY CalmQuiet, QuietTop DEF TInv
<1>2. UNCHANGED stopping
  BY DEF Calm, Skipped, NoNest, Act, Record, EndsBody, Caught, Leave, ThrowWaiting, ThrowBody,
     ThrowFinal, gates
<1>3. hit \ {t} \subseteq hit'
  BY DEF Calm, Skipped, NoNest, Act, Record, EndsBody, Caught, Leave, ThrowWaiting, ThrowBody,
     ThrowFinal, ThrownOut, Raises, Answers
<1> QED
  BY <1>1, <1>2, <1>3, RestsStop

LEMMA WorldStop ==
    ASSUME TInv, StopInv,
           \/ \E t \in Triggers : Cut(t)
           \/ StopAll \/ ClosedDown \/ Open
           \/ \E s \in Scenarios : Close(s)
           \/ \E s \in Scenarios, callee \in Scenarios \union {Null} : Edit(s, callee)
           \/ UNCHANGED runsVars
    PROVE  StopInv'
<1>1. \A t \in Triggers : (Running(t)' <=> Running(t)) /\ Top(t)' = Top(t)
  BY WorldTInv DEF Running, Top
<1>2. CASE StopAll
  BY <1>1, <1>2 DEF StopAll, Cancellable, StopInv
<1>3. CASE UNCHANGED stopping /\ hit \subseteq hit'
  BY <1>1, <1>3 DEF StopInv
<1> QED
  BY <1>2, <1>3 DEF Cut, Close, ClosedDown, Open, Edit, runsVars, gates

---------------------------------------------------------------------------
(* The invariant is kept.                                                    *)

LEMMA InitIInv == RunsInit => RunsIInv
<1> SUFFICES ASSUME RunsInit
             PROVE  RunsIInv
  OBVIOUS
<1>1. \A t \in Triggers : stack[t] = <<>> /\ Len(stack[t]) = 0 /\ ~Running(t)
  BY DEF RunsInit, Running
<1>2. \A t \in Triggers : \A i \in 1..Len(stack[t]) : FALSE
  BY <1>1
<1>3. QueuedInLine /\ QueuedAlone /\ SingleAlone
  BY <1>1, <1>2 DEF QueuedInLine, QueuedAlone, SingleAlone
<1>4. ClosingInv /\ StopInv
  BY DEF RunsInit, ClosingInv, StopInv
<1> QED
  BY <1>3, <1>4, InitTInv DEF RunsIInv, Alone

LEMMA CalmIInv ==
    ASSUME RunsIInv, NEW t \in Triggers, Calm(t)
    PROVE  RunsIInv' /\ NoStarts
<1>1. TInv' /\ Shape'
  BY CalmTInv DEF RunsIInv, TInv
<1>2. SameFrames /\ NoStarts
  BY CalmQuiet, QuietFacts, FewerFrames DEF RunsIInv, TInv
<1>3. UNCHANGED gates
  BY DEF Calm, Skipped, NoNest, Act, Record, EndsBody, Caught, Leave, ThrowWaiting, ThrowBody,
     ThrowFinal
<1>4. ClosingInv'
  BY <1>1, <1>2, <1>3, FramesClosing DEF RunsIInv, TInv
<1> QED
  BY <1>1, <1>2, <1>4, CalmAlone, CalmStop DEF RunsIInv

LEMMA EntersIInv ==
    ASSUME RunsIInv, NEW t \in Triggers, EnterQueued(t) \/ EnterTask(t) \/ QueueTurn(t)
    PROVE  RunsIInv' /\ ~stopping
<1>1. TInv' /\ Shape'
  BY EnterQueuedTInv, EnterTaskTInv, QueueTurnTInv DEF RunsIInv, TInv
<1>2. SameFrames
  <2>1. Quiet(t) \/ Starts(t) \/ Waits(t)
    BY EnterQueuedKinds, EnterTaskKinds, StartsQueued DEF RunsIInv, TInv
  <2> QED
    BY <2>1, QuietFacts, FewerFrames, StartsFrames, WaitsFrames DEF RunsIInv, TInv
<1>3. UNCHANGED gates
  BY DEF EnterQueued, EnterTask, QueueTurn
<1>4. ClosingInv'
  BY <1>1, <1>2, <1>3, FramesClosing DEF RunsIInv, TInv
<1>5. ~stopping
  BY StopRefuses DEF RunsIInv
<1>6. StopInv'
  BY <1>3, <1>5 DEF StopInv, gates
<1> QED
  BY <1>1, <1>4, <1>5, <1>6, EnterQueuedAlone, EnterTaskAlone, QueueTurnAlone DEF RunsIInv

LEMMA PushesIInv ==
    ASSUME RunsIInv, NEW t \in Triggers, Pushes(t), TInv',
           UNCHANGED <<registry, hit, runTask, queues, gates>>
    PROVE  RunsIInv' /\ NoStarts
<1>1. Shape /\ Shape' /\ NoStarts
  BY PushesStarts DEF RunsIInv, TInv
<1>2. ClosingInv'
  BY <1>1, PushesClosing DEF RunsIInv
<1>3. StopInv'
  BY StopRefuses DEF RunsIInv, StopInv, gates
<1>4. Alone'
  BY PushesAlone DEF RunsIInv, registry, queues
<1> QED
  BY <1>1, <1>2, <1>3, <1>4 DEF RunsIInv

LEMMA NestIInv ==
    ASSUME RunsIInv, NEW t \in Triggers, Nest(t)
    PROVE  RunsIInv' /\ NoStarts
<1>1. TInv' /\ Shape /\ Shape'
  BY NestTInv DEF RunsIInv, TInv
<1>2. UNCHANGED <<registry, hit, runTask, queues, gates>>
  BY DEF Nest
<1>3. CASE Pushes(t)
  BY <1>1, <1>2, <1>3, PushesIInv
<1>4. CASE Quiet(t)
  <2>1. SameFrames /\ NoStarts /\ Rests(t)' /\ \A u \in Triggers \ {t} : stack'[u] = stack[u]
    BY <1>1, <1>4, QuietFacts, FewerFrames, QuietTop
  <2>2. ClosingInv' /\ StopInv'
    BY <1>1, <1>2, <2>1, FramesClosing, RestsStop DEF RunsIInv, gates
  <2> QED
    BY <1>1, <2>1, <2>2, NestAlone DEF RunsIInv
<1> QED
  BY <1>3, <1>4, NestKinds DEF RunsIInv

LEMMA TriggerIInv ==
    ASSUME RunsIInv, NEW t \in Triggers, NEW s \in Scenarios, Trigger(t, s)
    PROVE  RunsIInv' /\ NoStarts
<1>1. Pushes(t) /\ TInv'
  BY TriggerTInv DEF RunsIInv
<1>2. UNCHANGED <<registry, hit, runTask, queues, gates>>
  BY DEF Trigger
<1> QED
  BY <1>1, <1>2, PushesIInv

LEMMA WorldIInv ==
    ASSUME RunsIInv,
           \/ \E t \in Triggers : Cut(t)
           \/ StopAll \/ ClosedDown \/ Open
           \/ \E s \in Scenarios : Close(s)
           \/ \E s \in Scenarios, callee \in Scenarios \union {Null} : Edit(s, callee)
           \/ UNCHANGED runsVars
    PROVE  RunsIInv' /\ NoStarts
<1>1. TInv' /\ UNCHANGED <<stack, runTask, holder>>
  BY WorldTInv DEF RunsIInv
<1>2. UNCHANGED mode
  BY DEF Cut, StopAll, ClosedDown, Open, Close, Edit, runsVars, registry
<1>3. NoStarts
  BY <1>1 DEF NoStarts, Live, Name
<1> QED
  BY <1>1, <1>2, <1>3, SameAlone, WorldClosing, WorldStop DEF RunsIInv

\* After the unload a step starts no body.
LEMMA NextIInv ==
    ASSUME RunsIInv, [RunsNext]_runsVars
    PROVE  RunsIInv' /\ (stopping => NoStarts)
<1>1. CASE \E t \in Triggers, s \in Scenarios : Trigger(t, s)
  BY <1>1, TriggerIInv
<1>2. CASE \E t \in Triggers : EnterQueued(t) \/ EnterTask(t) \/ QueueTurn(t)
  BY <1>2, EntersIInv
<1>3. CASE \E t \in Triggers : Nest(t)
  BY <1>3, NestIInv
<1>4. CASE \E t \in Triggers : Calm(t)
  BY <1>4, CalmIInv
<1> QED
  BY <1>1, <1>2, <1>3, <1>4, WorldIInv DEF RunsNext, Calm

LEMMA Invariance == RunsSpec => []RunsIInv
  BY InitIInv, NextIInv, PTL DEF RunsSpec

---------------------------------------------------------------------------
(* Theorems.                                                                 *)

LEMMA LiveRunsFacts ==
    ASSUME Shape, NEW s, NEW id \in LiveRuns(s)
    PROVE  \E t \in Triggers, i \in Depth : id = <<t, i>> /\ Live(t, i) /\ Name(t, i) = s
<1>1. PICK t \in Triggers, i \in Depth : id = <<t, i>>
  BY DEF LiveRuns, RunIds
<1>2. id[1] = t /\ id[2] = i /\ Alive(<<t, i>>) /\ Name(t, i) = s
  BY <1>1 DEF LiveRuns, Name
<1>3. Len(stack[t]) \in Nat /\ i \in Nat \ {0}
  BY RunsAssumption, FS_CardinalityType DEF Shape, Stacks, Depth
<1>4. Live(t, i)
  BY <1>2, <1>3, AliveFrames DEF Live
<1> QED
  BY <1>1, <1>2, <1>4

LEMMA OneAtMost ==
    ASSUME NEW S, \A x, y \in S : x = y
    PROVE  Cardinality(S) <= 1
<1>1. CASE S = {}
  BY <1>1, FS_EmptySet
<1>2. CASE S # {}
  <2>1. PICK x : x \in S
    BY <1>2
  <2>2. S = {x}
    BY <2>1
  <2> QED
    BY <2>2, FS_Singleton
<1> QED
  BY <1>1, <1>2

\* Two runs of a scenario of mode single or queued are never in their bodies at once,
\* however many scenarios, calls and queues there are, whoever is cancelled where.
THEOREM RunsExclude == RunsSpec => []RunsAlone
<1>1. RunsIInv => RunsAlone
  <2> SUFFICES ASSUME RunsIInv, NEW s \in Scenarios, mode[s] # "restart"
               PROVE  Cardinality(LiveRuns(s)) <= 1
    BY DEF RunsAlone
  <2>1. mode[s] \in {"single", "queued"}
    BY DEF RunsIInv, TInv, RunsTypes, Modes
  <2>2. ASSUME NEW x \in LiveRuns(s), NEW y \in LiveRuns(s)
        PROVE  x = y
    <3>1. PICK t \in Triggers, i \in Depth : x = <<t, i>> /\ Live(t, i) /\ Name(t, i) = s
      BY LiveRunsFacts DEF RunsIInv, TInv
    <3>2. PICK u \in Triggers, j \in Depth : y = <<u, j>> /\ Live(u, j) /\ Name(u, j) = s
      BY LiveRunsFacts DEF RunsIInv, TInv
    <3>3. i \in 1..Len(stack[t]) /\ j \in 1..Len(stack[u])
      BY <3>1, <3>2 DEF Live
    <3>4. CASE mode[s] = "single"
      BY <3>1, <3>2, <3>3, <3>4 DEF RunsIInv, Alone, SingleAlone
    <3>5. CASE mode[s] = "queued"
      <4>1. t = u
        BY <3>1, <3>2, <3>3, <3>5 DEF RunsIInv, Alone, QueuedAlone
      <4>2. i = j
        BY <3>1, <3>2, <3>3, <3>5, <4>1 DEF RunsIInv, Alone, QueuedAlone
      <4> QED
        BY <3>1, <3>2, <4>1, <4>2
    <3> QED
      BY <2>1, <3>4, <3>5
  <2> QED
    BY <2>2, OneAtMost
<1> QED
  BY <1>1, Invariance, PTL

\* When the migration's wait is over, no run of the closed scenario is in its body, be
\* it a trigger's, a queued or a nested one.
THEOREM ClosedQuiet == RunsSpec => []ClosedIsQuiet
<1>1. RunsIInv => ClosedIsQuiet
  <2> SUFFICES ASSUME RunsIInv, closed, NEW s \in blocked, NEW id \in LiveRuns(s)
               PROVE  FALSE
    BY DEF ClosedIsQuiet
  <2>1. PICK t \in Triggers, i \in Depth : id = <<t, i>> /\ Live(t, i) /\ Name(t, i) = s
    BY LiveRunsFacts DEF RunsIInv, TInv
  <2>2. <<t, i>> \in RunsOf(s)
    BY <2>1, RunsOfFrames DEF RunsIInv, TInv, Live
  <2> QED
    BY <2>2 DEF RunsIInv, ClosingInv
<1> QED
  BY <1>1, Invariance, PTL

LEMMA LivesShrink ==
    ASSUME Shape, Shape', NoStarts, NEW s
    PROVE  LiveRuns(s)' \subseteq LiveRuns(s)
<1> SUFFICES ASSUME NEW id \in RunIds, Alive(id)', stack'[id[1]][id[2]].s = s
             PROVE  id \in LiveRuns(s)
  BY DEF LiveRuns
<1>1. PICK t \in Triggers, i \in Depth : id = <<t, i>>
  BY DEF RunIds
<1>2. id[1] = t /\ id[2] = i
  BY <1>1
<1>3. Len(stack'[t]) \in Nat /\ i \in Nat \ {0}
  BY RunsAssumption, FS_CardinalityType DEF Shape, Stacks, Depth
<1>4. i \in 1..Len(stack'[t]) /\ Live(t, i)' /\ Name(t, i)' = s
  BY <1>2, <1>3 DEF Alive, Live, Name
<1>5. Live(t, i) /\ Name(t, i) = s
  BY <1>4 DEF NoStarts
<1> QED
  BY <1>1, <1>2, <1>3, <1>5, AliveFrames DEF LiveRuns, Name

\* After the unload no run begins its body any more: the runs in their bodies become
\* only fewer, whatever waits in line, in a lock or for a nested run.
THEOREM StopQuiet == RunsSpec => StopStartsNothing
<1>1. RunsIInv /\ RunsIInv' /\ [RunsNext]_runsVars =>
        [stopping => \A s \in Scenarios : LiveRuns(s)' \subseteq LiveRuns(s)]_runsVars
  BY NextIInv, LivesShrink DEF RunsIInv, TInv
<1> QED
  BY <1>1, Invariance, PTL DEF RunsSpec, StopStartsNothing

---------------------------------------------------------------------------
(* What a call waits for.                                                    *)

\* The last frame of t can take its next step: it waits for nobody.
GoesOn(t) ==
    /\ Running(t)
    /\ \/ t \in hit
       \/ Top(t).pc \in {"skip", "body", "act", "record"}
       \/ Top(t).pc \in {"caught", "leave"} /\ runLock = Null
       \/ Top(t).pc = "enter" /\ runLock = Null /\ Top(t).s \notin blocked
       \/ /\ Top(t).pc = "queue" /\ holder[Top(t).s] = Null
          /\ Head(line[Top(t).s]) = t

\* t has the queue of s, for a run that is in its body.
Keeps(t, s) ==
    /\ t \in Triggers
    /\ \E i \in 1..Len(stack[t]) : Live(t, i) /\ Name(t, i) = s

\* Whoever cannot go on waits for somebody who is there: for the run lock, which is held
\* by a call that goes on; in line, for the holder of the queue, which is in its body, or
\* for the first in line, who goes on.
NothingLeftBehind ==
    \A t \in Triggers : Running(t) /\ ~GoesOn(t) =>
        \/ Top(t).pc \in {"enter", "caught", "leave"} /\ runLock \in Triggers /\ GoesOn(runLock)
        \/ /\ Top(t).pc = "queue"
           /\ LET s == Top(t).s
              IN  \/ Keeps(holder[s], s)
                  \/ /\ holder[s] = Null
                     /\ Head(line[s]) \in Triggers /\ GoesOn(Head(line[s]))

\* Whoever skips holds the run lock, and no last frame waits for a nested one.
Skips(t) == Running(t) /\ Top(t).pc = "skip"

SkipInv ==
    /\ \A t \in Triggers : Skips(t) <=> runLock = t
    /\ \A t \in Triggers : Running(t) => Top(t).pc # "nested"

\* The holder of a queue is in the body of a run of its scenario.
HolderInv ==
    \A s \in Scenarios : holder[s] # Null => mode[s] = "queued" /\ Keeps(holder[s], s)

\* Whoever waits to come into a scenario that is closed is about to be cancelled.
BlockedInv ==
    \A t \in Triggers :
        Running(t) /\ Top(t).pc \in {"enter", "queue"} /\ Top(t).s \in blocked => t \in hit

WaitInv == SkipInv /\ HolderInv /\ BlockedInv

---------------------------------------------------------------------------
(* The run lock.                                                             *)

LEMMA PopsPoint ==
    ASSUME Shape, NEW t \in Triggers, Running(t), NEW p \in Points, Pops(t, p), Running(t)'
    PROVE  Top(t)'.pc = p
<1>1. PICK n \in Nat \ {0} : n = Len(stack[t])
  BY TopIsFrame DEF Shape
<1>2. stack'[t] \in Seq(Frames) /\ Len(stack'[t]) = n - 1 /\ stack[t] \in Seq(Frames)
  BY <1>1, TopIsFrame DEF Shape, Stacks, Pops
<1>3. n > 1
  BY <1>1, <1>2 DEF Running
<1>4. stack[t][n - 1] \in Frames
  BY <1>1, <1>2, <1>3
<1>5. stack'[t][n - 1].pc = p
  BY <1>1, <1>3, <1>4 DEF Pops, Frames
<1> QED
  BY <1>2, <1>5 DEF Top, Last

LEMMA LeavesPoint ==
    ASSUME Shape, NEW t \in Triggers, Running(t), NEW raises \in BOOLEAN, Leaves(t, raises)
    PROVE  Top(t)'.pc = "leave"
<1> DEFINE f == [Top(t) EXCEPT !.pc = "leave", !.raises = raises]
<1>1. Top(t) \in Frames
  BY TopIsFrame DEF Shape
<1>2. f \in Frames /\ f.s = Top(t).s /\ f.pc = "leave"
  BY <1>1 DEF Frames
<1>3. Retops(t, f)
  BY LeavesFacts DEF Shape
<1>4. Stays(t, f)
  BY <1>2, <1>3 DEF Stays
<1> HIDE DEF f
<1> QED
  BY <1>2, <1>4, StaysTop

LEMMA GoesPoint ==
    ASSUME Shape, NEW t \in Triggers, Running(t), NEW p \in Points, Goes(t, p)
    PROVE  Running(t)' /\ Top(t)'.pc = p /\ \A u \in Triggers \ {t} : stack'[u] = stack[u]
<1> DEFINE f == [Top(t) EXCEPT !.pc = p]
<1>1. Stays(t, f) /\ f.pc = p
  BY GoesStays
<1> HIDE DEF f
<1> QED
  BY <1>1, StaysTop DEF Stays, Retops

\* A step of t that ends neither with "skip" nor in front of a nested frame.
Clear(t) == Running(t)' => Top(t)'.pc \notin {"skip", "nested"}

LEMMA PopsClear ==
    ASSUME Shape, NEW t \in Triggers, Running(t), Answers(t) \/ Raises(t)
    PROVE  Clear(t)
  BY PopsQuiet, PopsPoint DEF Clear, Points, Bodies

LEMMA ThrownOutClear ==
    ASSUME Shape, NEW t \in Triggers, Running(t), ThrownOut(t)
    PROVE  Clear(t)
  BY LeavesPoint, PopsClear DEF ThrownOut, Clear

LEMMA CalmClear ==
    ASSUME TInv, NEW t \in Triggers, Calm(t)
    PROVE  Clear(t)
<1>0. Shape /\ Hits
  BY DEF TInv
<1> USE DEF At
<1>1. CASE Skipped(t)
  BY <1>0, <1>1, PopsClear DEF Skipped
<1>2. CASE NoNest(t)
  BY <1>0, <1>2, GoesPoint DEF NoNest, Points, Bodies, Clear
<1>3. CASE Act(t) \/ Record(t)
  BY <1>0, <1>3, PopsClear, LeavesPoint DEF Act, Record, EndsBody, Clear
<1>4. CASE Caught(t)
  BY <1>0, <1>4, LeavesPoint DEF Caught, Clear
<1>5. CASE Leave(t)
  BY <1>0, <1>5, PopsClear DEF Leave
<1>6. CASE ThrowWaiting(t)
  BY <1>0, <1>6, ThrownOutClear DEF ThrowWaiting, Hits
<1>7. CASE ThrowBody(t)
  <2>1. Running(t)
    BY <1>0, <1>7 DEF ThrowBody, Hits
  <2>2. CASE mode[Top(t).s] = "queued"
    BY <1>0, <1>7, <2>1, <2>2, ThrownOutClear DEF ThrowBody
  <2>3. CASE mode[Top(t).s] # "queued"
    BY <1>0, <1>7, <2>1, <2>3, GoesPoint DEF ThrowBody, Points, Bodies, Clear
  <2> QED
    BY <2>2, <2>3
<1>8. CASE ThrowFinal(t)
  BY <1>0, <1>8, PopsClear, LeavesPoint DEF ThrowFinal, Hits, Clear
<1> QED
  BY <1>1, <1>2, <1>3, <1>4, <1>5, <1>6, <1>7, <1>8 DEF Calm

LEMMA SkipKeeps ==
    ASSUME SkipInv, NEW t \in Triggers, \A u \in Triggers \ {t} : stack'[u] = stack[u],
           Skips(t)' <=> runLock' = t, Running(t)' => Top(t)'.pc # "nested",
           runLock' = runLock \/ {runLock, runLock'} \subseteq {t, Null}
    PROVE  SkipInv'
<1>1. \A u \in Triggers \ {t} : (Skips(u)' <=> Skips(u)) /\ (Running(u)' <=> Running(u))
                                /\ Top(u)' = Top(u)
  BY DEF Skips, Running, Top
<1>2. \A u \in Triggers \ {t} : runLock' = u <=> runLock = u
  BY RunsAssumption
<1> QED
  BY <1>1, <1>2 DEF SkipInv

LEMMA CalmSkip ==
    ASSUME TInv, SkipInv, NEW t \in Triggers, Calm(t)
    PROVE  SkipInv'
<1>1. Clear(t) /\ Quiet(t) /\ Running(t) /\ \A u \in Triggers \ {t} : stack'[u] = stack[u]
  BY CalmClear, CalmQuiet, QuietTop DEF TInv, Quiet
<1>2. ~Skips(t)' /\ (Running(t)' => Top(t)'.pc # "nested")
  BY <1>1 DEF Clear, Skips
<1>3. CASE Top(t).pc = "skip"
  <2>1. runLock = t
    BY <1>1, <1>3 DEF SkipInv, Skips
  <2>2. Skipped(t) \/ ThrowWaiting(t)
    BY <1>3 DEF Calm, NoNest, Act, Record, Caught, Leave, ThrowBody, ThrowFinal, At, Bodies
  <2>3. runLock' = Null
    BY <1>3, <2>2 DEF Skipped, ThrowWaiting
  <2> QED
    BY <1>1, <1>2, <2>1, <2>3, SkipKeeps, RunsAssumption
<1>4. CASE Top(t).pc # "skip"
  <2>1. runLock # t
    BY <1>4 DEF SkipInv, Skips
  <2>2. UNCHANGED runLock
    BY <1>4 DEF Calm, Skipped, NoNest, Act, Record, EndsBody, Caught, Leave, ThrowWaiting,
       ThrowBody, ThrowFinal, At
  <2> QED
    BY <1>1, <1>2, <2>1, <2>2, SkipKeeps
<1> QED
  BY <1>3, <1>4

LEMMA StartsPoint ==
    ASSUME Shape, NEW t \in Triggers, Starts(t) \/ Waits(t)
    PROVE  /\ Running(t)' /\ Top(t)'.pc \in {"body", "queue"} /\ Top(t)'.s = Top(t).s
           /\ Starts(t) => Top(t)'.pc = "body"
           /\ \A u \in Triggers \ {t} : stack'[u] = stack[u]
<1>1. PICK f \in Frames : Stays(t, f) /\ f.pc \in {"body", "queue"} /\ (Starts(t) => f.pc = "body")
  BY DEF Starts, Waits
<1> QED
  BY <1>1, StaysTop DEF Starts, Waits, Stays, Retops

LEMMA EnterQueuedSkip ==
    ASSUME TInv, SkipInv, NEW t \in Triggers, EnterQueued(t)
    PROVE  SkipInv'
<1>1. PICK s : s = Top(t).s
  OBVIOUS
<1>2. Running(t) /\ runLock = Null /\ Shape
  BY EnterQueuedKinds DEF EnterQueued, TInv
<1>3. CASE holder[s] # Null /\ waiters[s] >= QueueLimit
  <2>1. Goes(t, "skip") /\ runLock' = t
    BY <1>1, <1>3 DEF EnterQueued
  <2> QED
    BY <1>2, <2>1, GoesPoint, SkipKeeps DEF Points, Bodies, Skips
<1>4. CASE ~(holder[s] # Null /\ waiters[s] >= QueueLimit)
  <2>1. UNCHANGED runLock
    BY <1>1, <1>4 DEF EnterQueued
  <2>2. CASE holder[s] = Null /\ line[s] = <<>>
    <3>1. Goes(t, "body")
      BY <1>1, <1>4, <2>2 DEF EnterQueued
    <3> QED
      BY <1>2, <2>1, <3>1, GoesPoint, SkipKeeps, RunsAssumption DEF Points, Bodies, Skips
  <2>3. CASE ~(holder[s] = Null /\ line[s] = <<>>)
    <3>1. stack' = [stack EXCEPT ![t][Len(stack[t])].pc = "queue",
                                 ![t][Len(stack[t])].counted = holder[s] # Null]
      BY <1>1, <1>4, <2>3 DEF EnterQueued
    <3>2. Waits(t)
      BY <1>1, <3>1, WaitsFacts DEF TInv, EnterQueued
    <3> QED
      BY <1>2, <2>1, <3>2, StartsPoint, SkipKeeps, RunsAssumption DEF Skips
  <2> QED
    BY <2>2, <2>3
<1> QED
  BY <1>3, <1>4

LEMMA EnterTaskSkip ==
    ASSUME TInv, SkipInv, NEW t \in Triggers, EnterTask(t)
    PROVE  SkipInv'
<1>1. PICK s : s = Top(t).s
  OBVIOUS
<1>2. Running(t) /\ runLock = Null /\ Shape
  BY EnterTaskKinds DEF EnterTask, TInv
<1>3. CASE mode[s] = "single" /\ Busy(s)
  <2>1. Goes(t, "skip") /\ runLock' = t
    BY <1>1, <1>3 DEF EnterTask
  <2> QED
    BY <1>2, <2>1, GoesPoint, SkipKeeps DEF Points, Bodies, Skips
<1>4. CASE ~(mode[s] = "single" /\ Busy(s))
  <2>1. Goes(t, "body") /\ UNCHANGED runLock
    BY <1>1, <1>4 DEF EnterTask
  <2> QED
    BY <1>2, <2>1, GoesPoint, SkipKeeps, RunsAssumption DEF Points, Bodies, Skips
<1> QED
  BY <1>3, <1>4

LEMMA PushesSkip ==
    ASSUME TInv, SkipInv, NEW t \in Triggers, Pushes(t), UNCHANGED runLock
    PROVE  SkipInv'
<1>1. Running(t)' /\ Top(t)'.pc = "enter" /\ \A u \in Triggers \ {t} : stack'[u] = stack[u]
  BY PushesTop DEF TInv, Pushes
<1>2. runLock # t
  BY DEF SkipInv, Skips, Pushes
<1> QED
  BY <1>1, <1>2, SkipKeeps DEF Skips

\* A step of a call, of a trigger, or of the world around the calls.
LEMMA NextSkip ==
    ASSUME TInv, SkipInv, [RunsNext]_runsVars
    PROVE  SkipInv'
<1>1. ASSUME NEW t \in Triggers, NEW s \in Scenarios, Trigger(t, s)
      PROVE  SkipInv'
  BY <1>1, TriggerTInv, PushesSkip DEF Trigger
<1>2. ASSUME NEW t \in Triggers, EnterQueued(t) \/ EnterTask(t)
      PROVE  SkipInv'
  BY <1>2, EnterQueuedSkip, EnterTaskSkip
<1>3. ASSUME NEW t \in Triggers, QueueTurn(t)
      PROVE  SkipInv'
  <2>1. Starts(t) /\ UNCHANGED runLock /\ Running(t) /\ Top(t).pc = "queue" /\ Shape
    BY <1>3, StartsQueued DEF QueueTurn, At, TInv
  <2>2. runLock # t
    BY <2>1 DEF SkipInv, Skips
  <2> QED
    BY <2>1, <2>2, StartsPoint, SkipKeeps DEF Skips
<1>4. ASSUME NEW t \in Triggers, Nest(t)
      PROVE  SkipInv'
  <2>1. UNCHANGED runLock /\ Running(t) /\ Top(t).pc = "body" /\ Shape
    BY <1>4 DEF Nest, At, TInv
  <2>2. CASE Admitted(Top(t).calls)
    <3>1. Pushes(t)
      <4>1. Top(t).calls \in Scenarios
        BY <1>4, <2>1, TopIsFrame DEF Nest, Shape, Frames
      <4> QED
        BY <1>4, <2>2, <4>1, NestPushes DEF Nest, TInv, RunsTypes
    <3> QED
      BY <2>1, <3>1, PushesSkip
  <2>3. CASE ~Admitted(Top(t).calls)
    <3>1. Goes(t, "record")
      BY <1>4, <2>3 DEF Nest
    <3>2. runLock # t
      BY <2>1 DEF SkipInv, Skips
    <3> QED
      BY <2>1, <3>1, <3>2, GoesPoint, SkipKeeps DEF Points, Bodies, Skips
  <2> QED
    BY <2>2, <2>3
<1>5. ASSUME NEW t \in Triggers, Calm(t)
      PROVE  SkipInv'
  BY <1>5, CalmSkip
<1>6. ASSUME UNCHANGED <<stack, runLock>>
      PROVE  SkipInv'
  BY <1>6 DEF SkipInv, Skips, Running, Top
<1> QED
  BY <1>1, <1>2, <1>3, <1>4, <1>5, <1>6
  DEF RunsNext, Calm, Cut, StopAll, Close, ClosedDown, Open, Edit, runsVars
---------------------------------------------------------------------------
(* The holders of the queues.                                                *)

\* The body of frame i of u goes on.
Lasts(u, i) == Live(u, i)' /\ Name(u, i)' = Name(u, i)

\* No body ends but that of the last frame of t.
OthersLast(t) ==
    \A u \in Triggers : \A i \in 1..Len(stack[u]) :
        Live(u, i) /\ ~(u = t /\ i = Len(stack[t])) => Lasts(u, i)

LEMMA StaysLast ==
    ASSUME Shape, NEW t \in Triggers, Running(t), NEW f, Stays(t, f)
    PROVE  OthersLast(t) /\ (f.pc \in Bodies => Lasts(t, Len(stack[t])))
<1>1. PICK n \in Nat \ {0} : n = Len(stack[t])
  BY TopIsFrame DEF Shape
<1>2. /\ \A u \in Triggers \ {t} : stack'[u] = stack[u]
      /\ Len(stack'[t]) = n /\ stack'[t][n] = f /\ f.s = stack[t][n].s
      /\ \A i \in 1..n - 1 : stack'[t][i] = stack[t][i]
  BY <1>1, TopIsFrame DEF Stays, Retops, Shape
<1>3. \A i \in 1..n : i \in 1..n - 1 \/ i = n
  BY <1>1
<1>4. ASSUME NEW u \in Triggers, NEW i \in 1..Len(stack[u]), Live(u, i),
             ~(u = t /\ i = Len(stack[t]))
      PROVE  Lasts(u, i)
  BY <1>1, <1>2, <1>3, <1>4 DEF Lasts, Live, Name
<1>5. f.pc \in Bodies => Lasts(t, n)
  BY <1>1, <1>2 DEF Lasts, Live, Name
<1> QED
  BY <1>1, <1>4, <1>5 DEF OthersLast

LEMMA PopsLast ==
    ASSUME Shape, NEW t \in Triggers, Running(t), NEW p \in Bodies, Pops(t, p)
    PROVE  OthersLast(t)
<1>1. PICK n \in Nat \ {0} : n = Len(stack[t])
  BY TopIsFrame DEF Shape
<1>2. /\ \A u \in Triggers \ {t} : stack'[u] = stack[u]
      /\ Len(stack'[t]) = n - 1
      /\ \A i \in 1..n - 2 : stack'[t][i] = stack[t][i]
      /\ n > 1 => stack'[t][n - 1] = [stack[t][n - 1] EXCEPT !.pc = p]
  BY <1>1 DEF Pops
<1>3. ASSUME NEW i \in 1..n - 1, n > 1
      PROVE  Lasts(t, i)
  <2>1. CASE i = n - 1
    <3>1. stack[t][i] \in Frames
      BY <1>1, TopIsFrame DEF Shape
    <3>2. stack'[t][i].pc = p /\ stack'[t][i].s = stack[t][i].s
      BY <1>2, <1>3, <2>1, <3>1 DEF Frames
    <3> QED
      BY <1>2, <3>2 DEF Lasts, Live, Name
  <2>2. CASE i # n - 1
    <3>1. i \in 1..n - 2 /\ i \in 1..Len(stack[t]) - 1
      BY <1>1, <2>2
    <3>2. stack[t][i].pc \in Bodies
      BY <3>1 DEF Shape, Below, Bodies
    <3> QED
      BY <1>2, <3>1, <3>2 DEF Lasts, Live, Name
  <2> QED
    BY <2>1, <2>2
<1>4. ASSUME NEW i \in 1..n, i # n
      PROVE  Lasts(t, i)
  BY <1>3, <1>4
<1>5. ASSUME NEW u \in Triggers \ {t}, NEW i \in 1..Len(stack[u]), Live(u, i)
      PROVE  Lasts(u, i)
  BY <1>2, <1>5 DEF Lasts, Live, Name
<1> QED
  BY <1>1, <1>4, <1>5 DEF OthersLast

LEMMA QuietLast ==
    ASSUME Shape, NEW t \in Triggers, Quiet(t)
    PROVE  OthersLast(t)
  BY StaysLast, PopsLast DEF Quiet, Bodies

\* No body ends in a step that starts one, or waits in line.
LEMMA StartsLast ==
    ASSUME Shape, NEW t \in Triggers, Starts(t) \/ Waits(t)
    PROVE  /\ \A u \in Triggers : \A i \in 1..Len(stack[u]) : Live(u, i) => Lasts(u, i)
           /\ Starts(t) => Lasts(t, Len(stack[t]))
<1>1. PICK f \in Frames : Stays(t, f) /\ (Starts(t) => f.pc = "body")
  BY DEF Starts, Waits
<1>2. Running(t) /\ Top(t).pc \notin Bodies
  BY DEF Starts, Waits, Bodies
<1>3. ~Live(t, Len(stack[t]))
  BY <1>2, TopNames
<1>4. OthersLast(t) /\ (Starts(t) => Lasts(t, Len(stack[t])))
  BY <1>1, <1>2, StaysLast DEF Bodies
<1> QED
  BY <1>3, <1>4 DEF OthersLast

LEMMA PushesLast ==
    ASSUME Shape, NEW t \in Triggers, Pushes(t), NEW u \in Triggers, NEW i \in 1..Len(stack[u]),
           Live(u, i)
    PROVE  Lasts(u, i)
<1>1. PICK n \in Nat : n = Len(stack[t])
  BY DEF Shape, Stacks
<1>2. Len(stack'[t]) = n + 1 /\ \A j \in 1..n - 1 : stack'[t][j] = stack[t][j]
  BY <1>1 DEF Pushes
<1>3. CASE u # t
  BY <1>3 DEF Pushes, Lasts, Name, Live
<1>4. CASE u = t /\ i # n
  BY <1>1, <1>2, <1>4 DEF Lasts, Live, Name
<1>5. CASE u = t /\ i = n
  <2>1. Running(t)
    BY <1>1, <1>5 DEF Running
  <2>2. Top(t) = stack[t][n] /\ Top(t) \in Frames
    BY <1>1, <2>1, TopIsFrame DEF Shape
  <2>3. stack'[t][n] = [Top(t) EXCEPT !.pc = "nested"]
    BY <1>1, <2>1 DEF Pushes
  <2> QED
    BY <1>1, <1>2, <1>5, <2>2, <2>3 DEF Lasts, Live, Name, Frames, Bodies
<1> QED
  BY <1>3, <1>4, <1>5

\* The holders keep their queues while the bodies of their runs last.
LEMMA HolderKeeps ==
    ASSUME HolderInv, UNCHANGED <<mode, holder>>,
           \A u \in Triggers : \A i \in 1..Len(stack[u]) :
              Live(u, i) /\ mode[Name(u, i)] = "queued" => Lasts(u, i)
    PROVE  HolderInv'
<1> SUFFICES ASSUME NEW s \in Scenarios, holder[s] # Null
             PROVE  mode[s] = "queued" /\ Keeps(holder[s], s)'
  BY DEF HolderInv, Keeps
<1>1. mode[s] = "queued" /\ holder[s] \in Triggers
  BY DEF HolderInv, Keeps
<1>2. PICK i \in 1..Len(stack[holder[s]]) : Live(holder[s], i) /\ Name(holder[s], i) = s
  BY DEF HolderInv, Keeps
<1>3. Live(holder[s], i)' /\ Name(holder[s], i)' = s
  BY <1>1, <1>2 DEF Lasts
<1>4. i \in 1..Len(stack'[holder[s]])
  BY <1>3 DEF Live
<1> QED
  BY <1>1, <1>3, <1>4 DEF Keeps

\* One queue gets another holder, or none.
LEMMA HolderMoves ==
    ASSUME TInv, HolderInv, NEW z \in Scenarios, NEW h, holder' = [holder EXCEPT ![z] = h],
           h # Null => mode[z] = "queued" /\ Keeps(h, z)', UNCHANGED mode,
           \A u \in Triggers : \A i \in 1..Len(stack[u]) :
              Live(u, i) /\ Name(u, i) # z => Lasts(u, i)
    PROVE  HolderInv'
<1> SUFFICES ASSUME NEW s \in Scenarios, NEW g, g = holder'[s], g # Null
             PROVE  mode[s] = "queued" /\ Keeps(g, s)'
  BY DEF HolderInv, Keeps
<1>1. CASE s = z
  BY <1>1 DEF TInv, RunsTypes
<1>2. CASE s # z
  <2>1. holder[s] = g
    BY <1>2 DEF TInv, RunsTypes
  <2>2. mode[s] = "queued" /\ g \in Triggers
    BY <2>1 DEF HolderInv, Keeps
  <2>3. PICK i \in 1..Len(stack[g]) : Live(g, i) /\ Name(g, i) = s
    BY <2>1 DEF HolderInv, Keeps
  <2>4. Live(g, i)' /\ Name(g, i)' = s
    BY <1>2, <2>2, <2>3 DEF Lasts
  <2>5. i \in 1..Len(stack'[g])
    BY <2>4 DEF Live
  <2> QED
    BY <2>2, <2>4, <2>5 DEF Keeps
<1> QED
  BY <1>1, <1>2

\* A body that ends gives its queue back.
LEMMA EndsHolder ==
    ASSUME TInv, HolderInv, NEW t \in Triggers, Running(t), Quiet(t), UNCHANGED mode,
           IF mode[Top(t).s] = "queued" THEN Unlocked(Top(t).s) ELSE UNCHANGED holder
    PROVE  HolderInv'
<1>1. OthersLast(t) /\ Top(t).s \in Scenarios /\ Name(t, Len(stack[t])) = Top(t).s
  BY QuietLast, TopNames DEF TInv
<1>2. CASE mode[Top(t).s] = "queued"
  <2>1. \A u \in Triggers : \A i \in 1..Len(stack[u]) :
            Live(u, i) /\ Name(u, i) # Top(t).s => Lasts(u, i)
    BY <1>1 DEF OthersLast
  <2> QED
    BY <1>1, <1>2, <2>1, HolderMoves DEF Unlocked
<1>3. CASE mode[Top(t).s] # "queued"
  <2>1. \A u \in Triggers : \A i \in 1..Len(stack[u]) :
            Live(u, i) /\ mode[Name(u, i)] = "queued" => Lasts(u, i)
    BY <1>1, <1>3 DEF OthersLast
  <2> QED
    BY <1>3, <2>1, HolderKeeps
<1> QED
  BY <1>2, <1>3

LEMMA CalmHolder ==
    ASSUME TInv, HolderInv, NEW t \in Triggers, Calm(t)
    PROVE  HolderInv'
<1>1. Quiet(t) /\ Running(t) /\ OthersLast(t) /\ Shape
  BY CalmQuiet, QuietLast DEF TInv, Quiet
<1>2. UNCHANGED mode
  BY DEF Calm, Skipped, NoNest, Act, Record, EndsBody, Caught, Leave, ThrowWaiting, ThrowBody,
     ThrowFinal, registry
<1>3. CASE Act(t) \/ Record(t)
  BY <1>1, <1>2, <1>3, EndsHolder DEF Act, Record, EndsBody
<1>4. CASE ThrowBody(t)
  BY <1>1, <1>2, <1>4, EndsHolder DEF ThrowBody
<1>5. CASE ~(Act(t) \/ Record(t) \/ ThrowBody(t))
  <2>1. UNCHANGED holder
    BY <1>5 DEF Calm, Skipped, NoNest, Caught, Leave, ThrowWaiting, ThrowFinal, queues
  <2>2. Live(t, Len(stack[t])) => Lasts(t, Len(stack[t]))
    <3>1. CASE NoNest(t)
      <4>1. PICK p \in {"record", "act"} : Goes(t, p)
        BY <3>1 DEF NoNest
      <4>2. p \in Points /\ p \in Bodies
        BY DEF Points, Bodies
      <4> DEFINE f == [Top(t) EXCEPT !.pc = p]
      <4>3. Stays(t, f) /\ f.pc = p
        BY <1>1, <4>1, <4>2, GoesStays
      <4> HIDE DEF f
      <4> QED
        BY <1>1, <4>2, <4>3, StaysLast
    <3>2. CASE ~NoNest(t)
      <4>1. Top(t).pc \notin Bodies
        BY <1>5, <3>2 DEF Calm, Skipped, Caught, Leave, ThrowWaiting, ThrowFinal, At, Bodies
      <4> QED
        BY <1>1, <4>1, TopNames
    <3> QED
      BY <3>1, <3>2
  <2>3. \A u \in Triggers : \A i \in 1..Len(stack[u]) : Live(u, i) => Lasts(u, i)
    BY <1>1, <2>2 DEF OthersLast
  <2> QED
    BY <1>2, <2>1, <2>3, HolderKeeps
<1> QED
  BY <1>3, <1>4, <1>5

\* Who takes the queue starts its body with it.
LEMMA StartsHolder ==
    ASSUME TInv, HolderInv, NEW t \in Triggers, Starts(t), NEW z, z = Top(t).s,
           mode[z] = "queued", holder' = [holder EXCEPT ![z] = t], UNCHANGED mode
    PROVE  HolderInv'
<1>1. PICK n : n = Len(stack[t])
  OBVIOUS
<1>2. n \in 1..Len(stack[t]) /\ Name(t, n) = z /\ z \in Scenarios
  BY <1>1, TopNames DEF TInv, Starts
<1>3. /\ \A u \in Triggers : \A i \in 1..Len(stack[u]) : Live(u, i) => Lasts(u, i)
      /\ Lasts(t, n)
  BY <1>1, StartsLast DEF TInv
<1>4. Live(t, n)' /\ Name(t, n)' = z
  BY <1>2, <1>3 DEF Lasts
<1>5. n \in 1..Len(stack'[t])
  BY <1>4 DEF Live
<1>6. Keeps(t, z)'
  BY <1>4, <1>5 DEF Keeps
<1> QED
  BY <1>2, <1>3, <1>6, HolderMoves

LEMMA NextHolder ==
    ASSUME RunsIInv, HolderInv, [RunsNext]_runsVars
    PROVE  HolderInv'
<1>1. TInv /\ Shape /\ Alone
  BY DEF RunsIInv, TInv
<1>2. ASSUME NEW t \in Triggers, Pushes(t), UNCHANGED <<mode, holder>>
      PROVE  HolderInv'
  BY <1>1, <1>2, PushesLast, HolderKeeps
<1>3. ASSUME NEW t \in Triggers, NEW s \in Scenarios, Trigger(t, s)
      PROVE  HolderInv'
  <2>1. Pushes(t) /\ UNCHANGED <<mode, holder>>
    BY <1>1, <1>3, TriggerTInv DEF Trigger, registry, queues
  <2> QED
    BY <1>2, <2>1
<1>4. ASSUME NEW t \in Triggers, EnterQueued(t)
      PROVE  HolderInv'
  <2>1. PICK s : s = Top(t).s
    OBVIOUS
  <2>2. mode[s] = "queued" /\ UNCHANGED mode /\ Running(t) /\ Top(t).pc = "enter"
    BY <1>1, <1>4, <2>1, EnterQueuedKinds DEF EnterQueued, registry
  <2>3. CASE Quiet(t) /\ UNCHANGED queues
    <3>1. OthersLast(t) /\ ~Live(t, Len(stack[t]))
      BY <1>1, <2>2, <2>3, QuietLast, TopNames DEF Bodies
    <3> QED
      BY <2>2, <2>3, <3>1, HolderKeeps DEF OthersLast, queues
  <2>4. CASE Starts(t) /\ holder' = [holder EXCEPT ![s] = t]
    BY <1>1, <2>1, <2>2, <2>4, StartsHolder
  <2>5. CASE Waits(t) /\ UNCHANGED holder
    BY <1>1, <2>2, <2>5, StartsLast, HolderKeeps
  <2> QED
    BY <1>1, <1>4, <2>1, <2>3, <2>4, <2>5, EnterQueuedKinds
<1>5. ASSUME NEW t \in Triggers, EnterTask(t)
      PROVE  HolderInv'
  <2>1. UNCHANGED <<mode, holder>> /\ Running(t) /\ Top(t).pc = "enter"
        /\ (Quiet(t) \/ Starts(t))
    BY <1>1, <1>5, EnterTaskKinds DEF EnterTask, registry, queues
  <2>2. CASE Quiet(t)
    <3>1. OthersLast(t) /\ ~Live(t, Len(stack[t]))
      BY <1>1, <2>1, <2>2, QuietLast, TopNames DEF Bodies
    <3> QED
      BY <2>1, <3>1, HolderKeeps DEF OthersLast
  <2>3. CASE Starts(t)
    BY <1>1, <2>1, <2>3, StartsLast, HolderKeeps
  <2> QED
    BY <2>1, <2>2, <2>3
<1>6. ASSUME NEW t \in Triggers, QueueTurn(t)
      PROVE  HolderInv'
  <2>1. PICK s : s = Top(t).s
    OBVIOUS
  <2>2. Starts(t) /\ mode[s] = "queued" /\ UNCHANGED mode /\ holder' = [holder EXCEPT ![s] = t]
    BY <1>1, <1>6, <2>1, StartsQueued DEF QueueTurn, At, Alone, QueuedInLine, registry
  <2> QED
    BY <1>1, <2>1, <2>2, StartsHolder
<1>7. ASSUME NEW t \in Triggers, Nest(t)
      PROVE  HolderInv'
  <2>1. UNCHANGED <<mode, holder>> /\ Running(t) /\ Top(t).pc = "body"
    BY <1>7 DEF Nest, At, registry, queues
  <2>2. CASE Admitted(Top(t).calls)
    <3>1. Top(t).calls \in Scenarios
      BY <1>1, <1>7, <2>1, TopIsFrame DEF Nest, Shape, Frames
    <3>2. Pushes(t)
      BY <1>1, <1>7, <2>2, <3>1, NestPushes DEF Nest, TInv, RunsTypes
    <3> QED
      BY <1>2, <2>1, <3>2
  <2>3. CASE ~Admitted(Top(t).calls)
    <3> DEFINE f == [Top(t) EXCEPT !.pc = "record"]
    <3>1. Stays(t, f) /\ f.pc = "record"
      BY <1>1, <1>7, <2>1, <2>3, GoesStays DEF Nest, Points, Bodies
    <3> HIDE DEF f
    <3>2. OthersLast(t) /\ Lasts(t, Len(stack[t]))
      BY <1>1, <2>1, <3>1, StaysLast DEF Bodies
    <3> QED
      BY <2>1, <3>2, HolderKeeps DEF OthersLast
  <2> QED
    BY <2>2, <2>3
<1>8. ASSUME NEW t \in Triggers, Calm(t)
      PROVE  HolderInv'
  BY <1>1, <1>8, CalmHolder
<1>9. ASSUME UNCHANGED <<stack, mode, holder>>
      PROVE  HolderInv'
  BY <1>9 DEF HolderInv, Keeps, Live, Name
<1> QED
  BY <1>3, <1>4, <1>5, <1>6, <1>7, <1>8, <1>9
  DEF RunsNext, Calm, Cut, StopAll, Close, ClosedDown, Open, Edit, runsVars, registry, queues

---------------------------------------------------------------------------
(* A closed scenario lets nobody in.                                         *)

LEMMA BlockedKeeps ==
    ASSUME BlockedInv, NEW t \in Triggers, \A u \in Triggers \ {t} : stack'[u] = stack[u],
           hit \ {t} \subseteq hit', UNCHANGED blocked,
           Running(t)' /\ Top(t)'.pc \in {"enter", "queue"} => Top(t)'.s \notin blocked
    PROVE  BlockedInv'
<1> SUFFICES ASSUME NEW u \in Triggers, Running(u)', Top(u)'.pc \in {"enter", "queue"},
                    Top(u)'.s \in blocked
             PROVE  u \in hit'
  BY DEF BlockedInv
<1>1. u # t
  OBVIOUS
<1>2. Running(u) /\ Top(u)' = Top(u)
  BY <1>1 DEF Running, Top
<1> QED
  BY <1>1, <1>2 DEF BlockedInv

\* Whoever is at work for a scenario that closes has one of the runs that are cancelled.
LEMMA CloseBlocked ==
    ASSUME TInv, NEW s \in Scenarios, Close(s)
    PROVE  BlockedInv'
<1> SUFFICES ASSUME NEW t \in Triggers, Running(t), Top(t).s = s
             PROVE  t \in hit'
  BY DEF Close, BlockedInv, Running, Top
<1>1. PICK n : n = Len(stack[t])
  OBVIOUS
<1>2. n \in 1..Len(stack[t]) /\ Name(t, n) = s /\ n \in Depth
  BY <1>1, TopNames, MeInRunIds DEF TInv, Me, RunIds
<1>3. <<t, n>> \in RunsOf(s) /\ <<t, n>>[1] = t
  BY <1>2, RunsOfFrames DEF TInv
<1>4. \E id \in RunsOf(s) : id[1] = t
  BY <1>3
<1> QED
  BY <1>4 DEF Close

LEMMA NextBlocked ==
    ASSUME RunsIInv, BlockedInv, [RunsNext]_runsVars
    PROVE  BlockedInv'
<1>1. TInv /\ Shape /\ Hits
  BY DEF RunsIInv, TInv
<1>2. ASSUME NEW t \in Triggers, Pushes(t), UNCHANGED <<hit, blocked>>
      PROVE  BlockedInv'
  <2>1. Running(t)' /\ Top(t)'.s \notin blocked /\ \A u \in Triggers \ {t} : stack'[u] = stack[u]
    <3>1. stack'[t] \in Seq(Frames) /\ Len(stack'[t]) = Len(stack[t]) + 1 /\ Len(stack[t]) \in Nat
      BY <1>1, <1>2 DEF Shape, Stacks, Pushes
    <3>2. Top(t)' = stack'[t][Len(stack[t]) + 1] /\ Running(t)'
      BY <1>1, <1>2, <3>1, PushesTop DEF Top, Last
    <3> QED
      BY <1>2, <3>2 DEF Pushes, Admitted
  <2> QED
    BY <1>2, <2>1, BlockedKeeps
<1>3. ASSUME NEW t \in Triggers, NEW s \in Scenarios, Trigger(t, s)
      PROVE  BlockedInv'
  <2>1. Pushes(t) /\ UNCHANGED <<hit, blocked>>
    BY <1>1, <1>3, TriggerTInv DEF Trigger, gates
  <2> QED
    BY <1>2, <2>1
<1>4. ASSUME NEW t \in Triggers, EnterQueued(t) \/ EnterTask(t) \/ QueueTurn(t)
      PROVE  BlockedInv'
  <2>1. hit \subseteq hit' /\ UNCHANGED blocked
    BY <1>4 DEF EnterQueued, EnterTask, QueueTurn, Goes, gates
  <2>2. CASE Quiet(t)
    BY <1>1, <2>1, <2>2, QuietTop, BlockedKeeps DEF Rests
  <2>3. CASE Starts(t)
    BY <1>1, <2>1, <2>3, StartsPoint, BlockedKeeps
  <2>4. CASE Waits(t) /\ Top(t).s \notin blocked
    BY <1>1, <2>1, <2>4, StartsPoint, BlockedKeeps
  <2> QED
    BY <1>1, <1>4, <2>2, <2>3, <2>4, EnterQueuedKinds, EnterTaskKinds, StartsQueued
<1>5. ASSUME NEW t \in Triggers, Nest(t)
      PROVE  BlockedInv'
  <2>1. UNCHANGED <<hit, blocked>>
    BY <1>5 DEF Nest, gates
  <2>2. CASE Pushes(t)
    BY <1>2, <2>1, <2>2
  <2>3. CASE Quiet(t)
    BY <1>1, <2>1, <2>3, QuietTop, BlockedKeeps DEF Rests
  <2> QED
    BY <1>1, <1>5, <2>2, <2>3, NestKinds
<1>6. ASSUME NEW t \in Triggers, Calm(t)
      PROVE  BlockedInv'
  <2>1. Rests(t)' /\ \A u \in Triggers \ {t} : stack'[u] = stack[u]
    BY <1>1, <1>6, CalmQuiet, QuietTop
  <2>2. UNCHANGED blocked
    BY <1>6 DEF Calm, Skipped, NoNest, Act, Record, EndsBody, Caught, Leave, ThrowWaiting,
       ThrowBody, ThrowFinal, gates
  <2>3. hit \ {t} \subseteq hit'
    BY <1>6 DEF Calm, Skipped, NoNest, Act, Record, EndsBody, Caught, Leave, ThrowWaiting,
       ThrowBody, ThrowFinal, ThrownOut, Raises, Answers
  <2> QED
    BY <2>1, <2>2, <2>3, BlockedKeeps DEF Rests
<1>7. ASSUME UNCHANGED stack, hit \subseteq hit', blocked' \subseteq blocked
      PROVE  BlockedInv'
  BY <1>7 DEF BlockedInv, Running, Top
<1>8. ASSUME NEW s \in Scenarios, Close(s)
      PROVE  BlockedInv'
  BY <1>1, <1>8, CloseBlocked
<1> QED
  BY <1>3, <1>4, <1>5, <1>6, <1>7, <1>8
  DEF RunsNext, Calm, Cut, StopAll, ClosedDown, Open, Edit, runsVars, gates

---------------------------------------------------------------------------
(* Nothing is left behind.                                                   *)

LEMMA WaitInvariance == RunsSpec => []WaitInv
<1>1. RunsInit => WaitInv
  <2> SUFFICES ASSUME RunsInit PROVE WaitInv
    OBVIOUS
  <2>1. \A t \in Triggers : ~Running(t)
    BY DEF RunsInit, Running
  <2> QED
    BY <2>1, RunsAssumption DEF RunsInit, WaitInv, SkipInv, Skips, HolderInv, BlockedInv
<1>2. RunsIInv /\ WaitInv /\ [RunsNext]_runsVars => WaitInv'
  BY NextSkip, NextHolder, NextBlocked DEF WaitInv, RunsIInv
<1> QED
  BY <1>1, <1>2, Invariance, PTL DEF RunsSpec

\* No lock and no place in a queue is left behind, whoever is cancelled where: a call
\* that cannot go on waits for one that is there, the run lock's holder, who goes on,
\* the queue's holder, who is in the body of its run, or the first in line, who goes on.
\* All calls can be held up only by holders of queues that wait in line themselves.
THEOREM NobodyForgotten == RunsSpec => []NothingLeftBehind
<1>1. RunsIInv /\ WaitInv => NothingLeftBehind
  <2> SUFFICES ASSUME RunsIInv, WaitInv, NEW t \in Triggers, Running(t), ~GoesOn(t)
               PROVE  \/ /\ Top(t).pc \in {"enter", "caught", "leave"}
                         /\ runLock \in Triggers /\ GoesOn(runLock)
                      \/ /\ Top(t).pc = "queue"
                         /\ LET s == Top(t).s
                            IN  \/ Keeps(holder[s], s)
                                \/ /\ holder[s] = Null
                                   /\ Head(line[s]) \in Triggers /\ GoesOn(Head(line[s]))
    BY DEF NothingLeftBehind
  <2>1. TInv /\ Shape /\ Lines /\ RunsTypes
    BY DEF RunsIInv, TInv
  <2>2. Top(t) \in Frames /\ Top(t).s \in Scenarios /\ t \notin hit
    BY <2>1, TopIsFrame DEF Shape, Frames, GoesOn
  <2>3. Top(t).pc \in {"enter", "queue", "caught", "leave"}
    BY <2>2 DEF Frames, Bodies, GoesOn, WaitInv, SkipInv
  <2>4. CASE Top(t).pc # "queue"
    <3>1. runLock # Null
      BY <2>2, <2>3, <2>4 DEF GoesOn, WaitInv, BlockedInv
    <3>2. runLock \in Triggers /\ Skips(runLock)
      BY <2>1, <3>1 DEF RunsTypes, WaitInv, SkipInv
    <3> QED
      BY <2>3, <2>4, <3>2 DEF GoesOn, Skips
  <2>5. CASE Top(t).pc = "queue"
    <3>1. PICK s \in Scenarios : s = Top(t).s
      BY <2>2
    <3>2. CASE holder[s] # Null
      BY <2>5, <3>1, <3>2 DEF WaitInv, HolderInv
    <3>3. CASE holder[s] = Null
      <4>1. t \in Range(line[s]) /\ line[s] \in Seq(Triggers)
        BY <2>1, <2>5, <3>1 DEF Lines, InLine
      <4>2. line[s] # <<>>
        BY <4>1 DEF Range
      <4>3. PICK u \in Triggers : u = Head(line[s]) /\ u \in Range(line[s])
        BY <4>1, <4>2 DEF Range
      <4>4. InLine(u, s)
        BY <2>1, <4>3 DEF Lines
      <4>5. GoesOn(u)
        BY <3>3, <4>3, <4>4 DEF GoesOn, InLine
      <4> QED
        BY <2>5, <3>1, <3>3, <4>3, <4>5
    <3> QED
      BY <3>2, <3>3
  <2> QED
    BY <2>4, <2>5
<1> QED
  BY <1>1, WaitInvariance, Invariance, PTL

---------------------------------------------------------------------------
(* Only a circle holds them all up.                                          *)

\* Nobody can go on, and somebody should.
Stuck == (\E t \in Triggers : Running(t)) /\ \A t \in Triggers : ~GoesOn(t)

\* The definition that the i-th frame of t was read with, and works with.
Callee(t, i) == stack[t][i].calls

\* A frame that waits for a nested run waits for the one its definition calls.
Chained == \A t \in Triggers : \A i \in 1..Len(stack[t]) - 1 : Callee(t, i) = Name(t, i + 1)

\* Some run of s that is not over calls x.
Uses(s, x) == \E t \in Triggers : \E i \in 1..Len(stack[t]) : Name(t, i) = s /\ Callee(t, i) = x

\* The definitions that the runs work with call one another in a circle.
Circular == \E circle \in (SUBSET Scenarios) \ {{}} : \A s \in circle : \E x \in circle : Uses(s, x)

\* No run works with a definition that was edited since.
InForce == \A t \in Triggers : \A i \in 1..Len(stack[t]) : Callee(t, i) = plan[Name(t, i)]

\* A step adds a frame at most, and changes the last one of a call at most.
LEMMA StackSteps ==
    ASSUME TInv, [RunsNext]_runsVars
    PROVE  \/ UNCHANGED stack
           \/ \E t \in Triggers : Running(t) /\ \E f \in Frames : Stays(t, f)
           \/ \E t \in Triggers : Running(t) /\ \E p \in Points : Pops(t, p)
           \/ \E t \in Triggers : Pushes(t)
<1>1. ASSUME NEW t \in Triggers, Quiet(t)
      PROVE  Running(t) /\ ((\E f \in Frames : Stays(t, f)) \/ \E p \in Points : Pops(t, p))
  BY <1>1 DEF Quiet, Points, Bodies
<1>2. CASE \E t \in Triggers, s \in Scenarios : Trigger(t, s)
  BY <1>2, TriggerTInv
<1>3. CASE \E t \in Triggers : EnterQueued(t)
  BY <1>1, <1>3, EnterQueuedKinds DEF Starts, Waits
<1>4. CASE \E t \in Triggers : EnterTask(t)
  BY <1>1, <1>4, EnterTaskKinds DEF Starts
<1>5. CASE \E t \in Triggers : QueueTurn(t)
  BY <1>5, StartsQueued DEF TInv, Starts
<1>6. CASE \E t \in Triggers : Nest(t)
  BY <1>1, <1>6, NestKinds
<1>7. CASE \E t \in Triggers : Calm(t)
  BY <1>1, <1>7, CalmQuiet DEF TInv
<1> QED
  BY <1>2, <1>3, <1>4, <1>5, <1>6, <1>7, WorldTInv DEF RunsNext, Calm

\* Whoever is there after a step was there with its definition, or has read the plan.
Reads ==
    \A u \in Triggers : \A i \in 1..Len(stack'[u]) :
        \/ /\ i \in 1..Len(stack[u])
           /\ Name(u, i)' = Name(u, i) /\ Callee(u, i)' = Callee(u, i)
        \/ Callee(u, i)' = plan[Name(u, i)']

LEMMA StaysCalls ==
    ASSUME Shape, Chained, NEW t \in Triggers, Running(t), NEW f \in Frames, Stays(t, f)
    PROVE  Reads /\ Chained'
<1>1. PICK n \in Nat \ {0} : n = Len(stack[t])
  BY TopIsFrame DEF Shape
<1>2. /\ \A u \in Triggers \ {t} : stack'[u] = stack[u]
      /\ Len(stack'[t]) = n /\ Name(t, n)' = Name(t, n) /\ Callee(t, n)' = Callee(t, n)
      /\ \A i \in 1..n - 1 : stack'[t][i] = stack[t][i]
  BY <1>1, TopIsFrame DEF Stays, Retops, Shape, Name, Callee
<1>3. \A i \in 1..n : Name(t, i)' = Name(t, i) /\ Callee(t, i)' = Callee(t, i)
  <2>1. \A i \in 1..n : i \in 1..n - 1 \/ i = n
    BY <1>1
  <2> QED
    BY <1>2, <2>1 DEF Name, Callee
<1>4. \A u \in Triggers : Len(stack'[u]) = Len(stack[u]) /\ \A i \in 1..Len(stack[u]) :
         Name(u, i)' = Name(u, i) /\ Callee(u, i)' = Callee(u, i)
  BY <1>1, <1>2, <1>3 DEF Name, Callee
<1>5. \A u \in Triggers : Len(stack[u]) \in Nat
  BY DEF Shape, Stacks
<1>6. Reads
  BY <1>4 DEF Reads
<1>7. ASSUME NEW u \in Triggers, NEW i \in 1..Len(stack'[u]) - 1
      PROVE  Callee(u, i)' = Name(u, i + 1)'
  <2>1. i \in 1..Len(stack[u]) - 1 /\ i \in 1..Len(stack[u]) /\ i + 1 \in 1..Len(stack[u])
    BY <1>4, <1>5, <1>7
  <2>2. Name(u, i + 1)' = Name(u, i + 1)
    BY <1>4, <2>1
  <2> QED
    BY <1>4, <2>1, <2>2 DEF Chained
<1> QED
  BY <1>6, <1>7 DEF Chained

LEMMA PopsCalls ==
    ASSUME Shape, Chained, NEW t \in Triggers, Running(t), NEW p \in Points, Pops(t, p)
    PROVE  Reads /\ Chained'
<1>1. PICK n \in Nat \ {0} : n = Len(stack[t])
  BY TopIsFrame DEF Shape
<1>2. /\ \A u \in Triggers \ {t} : stack'[u] = stack[u]
      /\ Len(stack'[t]) = n - 1
      /\ \A i \in 1..n - 2 : stack'[t][i] = stack[t][i]
      /\ n > 1 => stack'[t][n - 1] = [stack[t][n - 1] EXCEPT !.pc = p]
  BY <1>1 DEF Pops
<1>3. ASSUME NEW i \in 1..n - 1
      PROVE  Name(t, i)' = Name(t, i) /\ Callee(t, i)' = Callee(t, i)
  <2>1. CASE i = n - 1
    <3>1. stack[t][i] \in Frames /\ n > 1
      BY <1>1, <2>1, TopIsFrame DEF Shape
    <3> QED
      BY <1>2, <2>1, <3>1 DEF Frames, Name, Callee
  <2>2. CASE i # n - 1
    <3>1. i \in 1..n - 2
      BY <2>2
    <3> QED
      BY <1>2, <3>1 DEF Name, Callee
  <2> QED
    BY <2>1, <2>2
<1>4. ASSUME NEW u \in Triggers, NEW i \in 1..Len(stack'[u])
      PROVE  i \in 1..Len(stack[u]) /\ Name(u, i)' = Name(u, i) /\ Callee(u, i)' = Callee(u, i)
  BY <1>1, <1>2, <1>3 DEF Name, Callee
<1>5. \A u \in Triggers : Len(stack[u]) \in Nat /\ Len(stack'[u]) \in Nat
                            /\ Len(stack'[u]) <= Len(stack[u])
  BY <1>1, <1>2 DEF Shape, Stacks
<1>6. Reads
  BY <1>4 DEF Reads
<1>7. ASSUME NEW u \in Triggers, NEW i \in 1..Len(stack'[u]) - 1
      PROVE  Callee(u, i)' = Name(u, i + 1)'
  <2>1. /\ i \in 1..Len(stack[u]) - 1
        /\ i \in 1..Len(stack'[u]) /\ i + 1 \in 1..Len(stack'[u])
    BY <1>5
  <2>2. Name(u, i + 1)' = Name(u, i + 1)
    BY <1>4, <2>1
  <2> QED
    BY <1>4, <2>1, <2>2 DEF Chained
<1> QED
  BY <1>6, <1>7 DEF Chained

LEMMA PushesCalls ==
    ASSUME Shape, Chained, NEW t \in Triggers, Pushes(t)
    PROVE  Reads /\ Chained'
<1>1. PICK n \in Nat : n = Len(stack[t])
  BY DEF Shape, Stacks
<1>2. /\ \A u \in Triggers \ {t} : stack'[u] = stack[u]
      /\ Len(stack'[t]) = n + 1
      /\ \A i \in 1..n - 1 : stack'[t][i] = stack[t][i]
      /\ Callee(t, n + 1)' = plan[Name(t, n + 1)']
  BY <1>1 DEF Pushes, Callee, Name
<1>3. n > 0 => /\ Name(t, n)' = Name(t, n) /\ Callee(t, n)' = Callee(t, n)
               /\ Callee(t, n) = Name(t, n + 1)'
  <2> SUFFICES ASSUME n > 0
               PROVE  /\ Name(t, n)' = Name(t, n) /\ Callee(t, n)' = Callee(t, n)
                      /\ Callee(t, n) = Name(t, n + 1)'
    OBVIOUS
  <2>1. Running(t)
    BY <1>1 DEF Running
  <2>2. Top(t) = stack[t][n] /\ Top(t) \in Frames
    BY <1>1, <2>1, TopIsFrame DEF Shape
  <2>3. stack'[t][n] = [Top(t) EXCEPT !.pc = "nested"] /\ stack'[t][n + 1].s = Top(t).calls
    BY <1>1, <2>1 DEF Pushes
  <2> QED
    BY <2>2, <2>3 DEF Frames, Name, Callee
<1>4. \A i \in 1..n : Name(t, i)' = Name(t, i) /\ Callee(t, i)' = Callee(t, i)
  <2>1. \A i \in 1..n : i \in 1..n - 1 \/ (i = n /\ n > 0)
    BY <1>1
  <2> QED
    BY <1>2, <1>3, <2>1 DEF Name, Callee
<1>5. Reads
  <2> SUFFICES ASSUME NEW u \in Triggers, NEW i \in 1..Len(stack'[u])
               PROVE  \/ /\ i \in 1..Len(stack[u])
                         /\ Name(u, i)' = Name(u, i) /\ Callee(u, i)' = Callee(u, i)
                      \/ Callee(u, i)' = plan[Name(u, i)']
    BY DEF Reads
  <2>1. CASE u # t
    BY <1>2, <2>1 DEF Name, Callee
  <2>2. CASE u = t
    <3>1. i \in 1..n \/ i = n + 1
      BY <1>1, <1>2, <2>2
    <3> QED
      BY <1>1, <1>2, <1>4, <2>2, <3>1
  <2> QED
    BY <2>1, <2>2
<1>6. ASSUME NEW u \in Triggers, NEW i \in 1..Len(stack'[u]) - 1
      PROVE  Callee(u, i)' = Name(u, i + 1)'
  <2>1. CASE u # t
    BY <1>2, <2>1 DEF Chained, Name, Callee
  <2>2. CASE u = t /\ i # n
    <3>1. i \in 1..n - 1 /\ i \in 1..n /\ i + 1 \in 1..n
      BY <1>1, <1>2, <2>2
    <3>2. Callee(t, i) = Name(t, i + 1) /\ Name(t, i + 1)' = Name(t, i + 1)
      BY <1>1, <1>4, <3>1 DEF Chained
    <3> QED
      BY <1>4, <2>2, <3>1, <3>2
  <2>3. CASE u = t /\ i = n
    BY <1>1, <1>2, <1>3, <2>3
  <2> QED
    BY <2>1, <2>2, <2>3
<1> QED
  BY <1>5, <1>6 DEF Chained

LEMMA NextCalls ==
    ASSUME TInv, Chained, [RunsNext]_runsVars
    PROVE  Reads /\ Chained'
<1>1. Shape
  BY DEF TInv
<1>2. CASE UNCHANGED stack
  BY <1>2 DEF Reads, Chained, Name, Callee
<1> QED
  BY <1>1, <1>2, StackSteps, StaysCalls, PopsCalls, PushesCalls

LEMMA ChainedInvariance == RunsSpec => []Chained
<1>1. RunsInit => Chained
  <2> SUFFICES ASSUME RunsInit, NEW t \in Triggers
               PROVE  1..Len(stack[t]) - 1 = {}
    BY DEF Chained
  <2>1. Len(stack[t]) = 0
    BY DEF RunsInit
  <2> QED
    BY <2>1
<1>2. TInv /\ Chained /\ [RunsNext]_runsVars => Chained'
  BY NextCalls
<1> QED
  BY <1>1, <1>2, TypesInvariance, PTL DEF RunsSpec

\* Each of the runs that are stuck waits in a line: the scenario of a run that waits for
\* a nested one calls that one's, and the scenario of a last one calls the one that the
\* holder of its queue waits for.
LEMMA StuckIsCircular ==
    ASSUME TInv, Chained, NothingLeftBehind, Stuck
    PROVE  Circular
<1> DEFINE here == {s \in Scenarios : \E t \in Triggers : \E i \in 1..Len(stack[t]) : Name(t, i) = s}
<1>1. Shape
  BY DEF TInv
<1>2. \A t \in Triggers : \A i \in 1..Len(stack[t]) : Name(t, i) \in Scenarios /\ Name(t, i) \in here
  <2> SUFFICES ASSUME NEW t \in Triggers, NEW i \in 1..Len(stack[t])
               PROVE  Name(t, i) \in Scenarios
    OBVIOUS
  <2>1. stack[t][i] \in Frames
    BY <1>1 DEF Shape, Stacks
  <2> QED
    BY <2>1 DEF Frames, Name
<1>3. ASSUME NEW t \in Triggers, NEW i \in 1..Len(stack[t]), i # Len(stack[t])
      PROVE  Callee(t, i) \in here
  <2>1. i \in 1..Len(stack[t]) - 1 /\ i + 1 \in 1..Len(stack[t])
    BY <1>1, <1>3 DEF Shape, Stacks
  <2> QED
    BY <1>2, <2>1 DEF Chained
<1>4. ASSUME NEW t \in Triggers, Running(t)
      PROVE  Top(t).pc = "queue" /\ Keeps(holder[Top(t).s], Top(t).s)
  BY <1>4 DEF NothingLeftBehind, Stuck
<1>5. ASSUME NEW s \in here
      PROVE  \E x \in here : Uses(s, x)
  <2>1. PICK t \in Triggers : \E i \in 1..Len(stack[t]) : Name(t, i) = s
    OBVIOUS
  <2>2. PICK i \in 1..Len(stack[t]) : Name(t, i) = s
    BY <2>1
  <2>3. CASE i # Len(stack[t])
    BY <1>3, <2>2, <2>3 DEF Uses
  <2>4. CASE i = Len(stack[t])
    <3>1. Running(t) /\ Top(t).s = s
      BY <1>1, <2>2, <2>4, TopIsFrame DEF Running, Name, Shape
    <3>2. PICK h \in Triggers : Keeps(h, s)
      BY <1>4, <3>1 DEF Keeps
    <3>3. PICK j \in 1..Len(stack[h]) : Live(h, j) /\ Name(h, j) = s
      BY <3>2 DEF Keeps
    <3>4. j # Len(stack[h])
      <4>1. Running(h)
        BY <3>3 DEF Live, Running
      <4>2. Top(h) = stack[h][Len(stack[h])] /\ Top(h).pc = "queue"
        BY <1>1, <1>4, <4>1, TopIsFrame DEF Shape
      <4> QED
        BY <3>3, <4>2 DEF Live, Bodies
    <3> QED
      BY <1>3, <3>3, <3>4 DEF Uses
  <2> QED
    BY <2>3, <2>4
<1>6. here # {}
  <2>1. PICK t \in Triggers : Running(t)
    BY DEF Stuck
  <2>2. Len(stack[t]) \in 1..Len(stack[t])
    BY <1>1, <2>1, TopIsFrame DEF Shape
  <2> QED
    BY <1>2, <2>2
<1>7. here \in (SUBSET Scenarios) \ {{}}
  BY <1>6
<1> HIDE DEF here
<1> QED
  BY <1>5, <1>7 DEF Circular

\* Calls stop each other only if the definitions that their runs were started with call
\* one another in a circle: no cancellation, full queue, closing or order of arrival
\* holds all of them up.
THEOREM OnlyCircles == RunsSpec => [](Stuck => Circular)
<1>1. TInv /\ Chained /\ NothingLeftBehind => (Stuck => Circular)
  BY StuckIsCircular
<1> QED
  BY <1>1, TypesInvariance, ChainedInvariance, NobodyForgotten, PTL

\* That needs an edit in between: while the runs work with the definitions in force, of
\* which the check of cycles (_validate_no_cycles) holds, some call can go on.
THEOREM EditedMeanwhile == RunsSpec => [](Stuck => ~InForce)
<1>1. TInv /\ (Stuck => Circular) => (Stuck => ~InForce)
  <2> SUFFICES ASSUME TInv, Circular, InForce PROVE FALSE
    OBVIOUS
  <2>1. PICK circle \in (SUBSET Scenarios) \ {{}} : \A s \in circle : \E x \in circle : Uses(s, x)
    BY DEF Circular
  <2>2. \A s \in circle : plan[s] \in circle
    BY <2>1 DEF Uses, InForce
  <2>3. Acyclic(plan)
    BY DEF TInv, RunsTypes
  <2> QED
    BY <2>2, <2>3 DEF Acyclic
<1> QED
  BY <1>1, TypesInvariance, OnlyCircles, PTL

---------------------------------------------------------------------------
(* How many edits a circle takes.                                            *)

\* s calls x in the registry, or in a run that is not over.
Known(s, x) == plan[s] = x \/ Uses(s, x)

Uncalled == \A s, x \in Scenarios : ~Known(s, x)

OneCall ==
    \E a, b \in Scenarios :
        /\ a # b /\ plan[a] = b
        /\ \A s, x \in Scenarios : Known(s, x) => s = a /\ x = b

TheTwo(a, b, c, d) ==
    /\ a # b /\ c # d /\ ~(b = c /\ d = a)
    /\ \A s, x \in Scenarios : Known(s, x) => (s = a /\ x = b) \/ (s = c /\ x = d)

TwoCalls == \E a, b, c, d \in Scenarios : TheTwo(a, b, c, d)

\* What the runs and the registry know is what the edits made.
EditInv ==
    /\ edits = 0 => Uncalled
    /\ edits = 1 => OneCall
    /\ edits = 2 => TwoCalls

\* A step that edits nothing teaches nothing.
LEMMA KeepsKnown ==
    ASSUME Reads, UNCHANGED plan, NEW s, NEW x, Known(s, x)'
    PROVE  Known(s, x)
<1>1. CASE plan'[s] = x
  BY <1>1 DEF Known
<1>2. CASE Uses(s, x)'
  <2>1. PICK t \in Triggers : \E i \in 1..Len(stack'[t]) : Name(t, i)' = s /\ Callee(t, i)' = x
    BY <1>2 DEF Uses
  <2>2. PICK i \in 1..Len(stack'[t]) : Name(t, i)' = s /\ Callee(t, i)' = x
    BY <2>1
  <2> QED
    BY <2>2 DEF Reads, Known, Uses
<1> QED
  BY <1>1, <1>2 DEF Known

\* An edit teaches the call that it makes.
LEMMA EditKnown ==
    ASSUME TInv, NEW a \in Scenarios, NEW b \in Scenarios \union {Null}, Edit(a, b),
           NEW s \in Scenarios, NEW x \in Scenarios, Known(s, x)'
    PROVE  Known(s, x) \/ (s = a /\ x = b)
<1>1. UNCHANGED stack /\ plan' = [plan EXCEPT ![a] = b] /\ plan \in Plans
  BY DEF Edit, TInv, RunsTypes
<1>2. Uses(s, x)' => Uses(s, x)
  BY <1>1 DEF Uses, Name, Callee
<1>3. plan'[s] = x => plan[s] = x \/ (s = a /\ x = b)
  BY <1>1 DEF Plans
<1> QED
  BY <1>2, <1>3 DEF Known

\* No circle of one scenario, or of two.
LEMMA NoShortCircle ==
    ASSUME Acyclic(plan)', NEW a \in Scenarios, NEW b \in Scenarios
    PROVE  plan'[a] # a /\ ~(plan'[a] = b /\ plan'[b] = a)
<1>1. {a} \in (SUBSET Scenarios) \ {{}} /\ {a, b} \in (SUBSET Scenarios) \ {{}}
  OBVIOUS
<1>2. \E s \in {a} : plan'[s] \notin {a}
  BY <1>1 DEF Acyclic
<1>3. \E s \in {a, b} : plan'[s] \notin {a, b}
  BY <1>1 DEF Acyclic
<1> QED
  BY <1>2, <1>3

LEMMA EditKeeps ==
    ASSUME TInv, EditInv, NEW c \in Scenarios, NEW d \in Scenarios \union {Null}, Edit(c, d)
    PROVE  EditInv'
<1>1. /\ edits' = edits + 1 /\ edits \in Nat /\ plan[c] # d /\ Acyclic(plan)'
      /\ plan' = [plan EXCEPT ![c] = d] /\ plan \in Plans
  BY RunsAssumption DEF Edit, TInv, RunsTypes
<1>2. CASE edits = 0
  <2>1. plan[c] \notin Scenarios
    BY <1>2 DEF EditInv, Uncalled, Known
  <2>2. plan'[c] = d /\ d \in Scenarios
    BY <1>1, <2>1 DEF Plans
  <2>3. c # d
    BY <1>1, <2>2, NoShortCircle
  <2>4. \A s, x \in Scenarios : Known(s, x)' => s = c /\ x = d
    BY <1>2, EditKnown DEF EditInv, Uncalled
  <2>5. OneCall'
    BY <2>2, <2>3, <2>4 DEF OneCall
  <2> QED
    BY <1>1, <1>2, <2>5 DEF EditInv
<1>3. CASE edits = 1
  <2>1. PICK a \in Scenarios, b \in Scenarios :
          /\ a # b /\ plan[a] = b
          /\ \A s, x \in Scenarios : Known(s, x) => s = a /\ x = b
    BY <1>3 DEF EditInv, OneCall
  <2>2. \A s, x \in Scenarios : Known(s, x)' => (s = a /\ x = b) \/ (s = c /\ x = d)
    BY <2>1, EditKnown
  <2>3. ASSUME d \notin Scenarios PROVE TwoCalls'
    <3>1. TheTwo(a, b, a, b)'
      BY <2>1, <2>2, <2>3 DEF TheTwo
    <3> QED
      BY <3>1 DEF TwoCalls
  <2>4. ASSUME d \in Scenarios PROVE TwoCalls'
    <3>1. plan'[c] = d /\ c # d
      BY <1>1, <2>4, NoShortCircle DEF Plans
    <3>2. ~(b = c /\ d = a)
      <4>1. CASE a = c
        BY <2>1, <4>1
      <4>2. CASE a # c
        <5>1. plan'[a] = b
          BY <1>1, <2>1, <4>2 DEF Plans
        <5> QED
          BY <1>1, <3>1, <5>1, NoShortCircle
      <4> QED
        BY <4>1, <4>2
    <3>3. TheTwo(a, b, c, d)'
      BY <2>1, <2>2, <3>1, <3>2 DEF TheTwo
    <3> QED
      BY <2>4, <3>3 DEF TwoCalls
  <2>5. TwoCalls'
    BY <2>3, <2>4
  <2> QED
    BY <1>1, <1>3, <2>5 DEF EditInv
<1>4. CASE edits > 1
  BY <1>1, <1>4 DEF EditInv
<1> QED
  BY <1>1, <1>2, <1>3, <1>4

LEMMA NextEdit ==
    ASSUME TInv, Chained, EditInv, [RunsNext]_runsVars
    PROVE  EditInv'
<1>1. CASE \E a \in Scenarios, b \in Scenarios \union {Null} : Edit(a, b)
  BY <1>1, EditKeeps
<1>2. CASE UNCHANGED <<plan, edits>>
  <2>1. \A s, x : Known(s, x)' => Known(s, x)
    BY <1>2, NextCalls, KeepsKnown
  <2>2. Uncalled => Uncalled'
    BY <2>1 DEF Uncalled
  <2>3. OneCall => OneCall'
    BY <1>2, <2>1 DEF OneCall
  <2>4. TwoCalls => TwoCalls'
    <3>1. ASSUME NEW a, NEW b, NEW c, NEW d, TheTwo(a, b, c, d)
          PROVE  TheTwo(a, b, c, d)'
      BY <2>1, <3>1 DEF TheTwo
    <3> QED
      BY <3>1 DEF TwoCalls
  <2> QED
    BY <1>2, <2>2, <2>3, <2>4 DEF EditInv
<1>3. \/ UNCHANGED <<plan, edits>>
      \/ \E a \in Scenarios, b \in Scenarios \union {Null} : Edit(a, b)
  BY DEF RunsNext, Trigger, EnterQueued, EnterTask, Skipped, QueueTurn, Nest, NoNest, Act, Record,
         EndsBody, Caught, Leave, ThrowWaiting, ThrowBody, ThrowFinal, Cut, StopAll, Close,
         ClosedDown, Open, registry, runsBounds, runsVars
<1> QED
  BY <1>1, <1>2, <1>3

LEMMA EditInvariance == RunsSpec => []EditInv
<1>1. RunsInit => EditInv
  <2> SUFFICES ASSUME RunsInit PROVE Uncalled /\ edits = 0
    BY DEF EditInv
  <2>1. \A t \in Triggers : 1..Len(stack[t]) = {}
    BY DEF RunsInit
  <2> QED
    BY <2>1, RunsAssumption DEF RunsInit, Uncalled, Known, Uses
<1>2. TInv /\ Chained /\ EditInv /\ [RunsNext]_runsVars => EditInv'
  BY NextEdit
<1> QED
  BY <1>1, <1>2, TypesInvariance, ChainedInvariance, PTL DEF RunsSpec

\* It takes three: the registry begins without nested calls, two edits make two calls
\* at most, and two calls in a circle are two that the check of cycles has seen
\* together.  With two edits or fewer some call can always go on.
THEOREM ThreeEditsAtLeast == RunsSpec => [](edits <= 2 => ~Stuck)
<1>1. TInv /\ EditInv /\ (Stuck => Circular) => (edits <= 2 => ~Stuck)
  <2> SUFFICES ASSUME TInv, EditInv, edits <= 2, Circular PROVE FALSE
    OBVIOUS
  <2>1. PICK circle \in (SUBSET Scenarios) \ {{}} :
          \A s \in circle : \E x \in circle : Known(s, x)
    BY DEF Circular, Known
  <2>2. PICK s \in circle : s \in Scenarios
    BY <2>1
  <2>3. edits \in {0, 1, 2}
    BY RunsAssumption DEF TInv, RunsTypes
  <2>4. ~Uncalled
    BY <2>1, <2>2 DEF Uncalled
  <2>5. ~OneCall
    BY <2>1, <2>2 DEF OneCall
  <2>6. ~TwoCalls
    <3> SUFFICES ASSUME NEW a \in Scenarios, NEW b \in Scenarios,
                        NEW c \in Scenarios, NEW d \in Scenarios, TheTwo(a, b, c, d)
                 PROVE  FALSE
      BY DEF TwoCalls
    <3>1. \A v \in circle : (v = a /\ b \in circle) \/ (v = c /\ d \in circle)
      BY <2>1 DEF TheTwo
    <3> QED
      BY <2>2, <3>1 DEF TheTwo
  <2> QED
    BY <2>3, <2>4, <2>5, <2>6 DEF EditInv
<1> QED
  BY <1>1, TypesInvariance, EditInvariance, OnlyCircles, PTL

---------------------------------------------------------------------------
(* The light.                                                                *)

\* The lock and what its holders are doing.
LockInv ==
    /\ \A r \in Runs : run[r].pc \in Locked <=> lock = r
    /\ lock = User <=> user # Nothing
    /\ lock = Task <=> rec \in {"send", "confirm", "relock"}

\* A claim that does not give the light to automation.
NotOwned(claim) == claim = Nothing \/ claim.kind = "manual" \/ claim.rev # rev

\* What a person has claimed is not automation's, neither now nor after a restart.
ChosenInv == chosen => lit = "on" /\ NotOwned(auth) /\ NotOwned(saved)

\* The app's on leaves no claim of automation; what its rollback restores was not
\* automation's claim to the light as it is.
UserInv ==
    user # Nothing =>
      /\ user.to = "on" => /\ auth = Nothing \/ auth.kind = "manual"
                           /\ saved = Nothing \/ saved.kind = "manual"
      /\ user.chosen /\ chosen => NotOwned(user.before)

\* A run that is about to switch off, or to own what it switched on, knows that nobody
\* has claimed the light since it took the lock.
RunOK(r) ==
    /\ run[r].lit = "off" => run[r].claim = Nothing \/ run[r].claim.kind # "manual"
    /\ run[r].pc = "send_on" /\ run[r].lit = "off" => ~chosen
    /\ run[r].pc = "note_on" /\ run[r].lit = "off" /\ chosen => Manual
    /\ run[r].pc \in {"send_off", "failed_off"} => ~chosen

RunInv == \A r \in Runs : RunOK(r)

\* No run outlives its process.
DownInv == ~up => \A r \in Runs : run[r].pc = "idle"

IInv == TypeOK /\ LockInv /\ ChosenInv /\ UserInv /\ RunInv /\ DownInv

---------------------------------------------------------------------------
(* The parts of a state.                                                     *)

LEMMA Sorts ==
    /\ Nothing \notin Claims /\ Nothing \notin Obligations
    /\ Nothing \notin Calls /\ Nothing \notin Reconciles
    /\ Free \notin Runs /\ User \notin Runs /\ Task \notin Runs
    /\ Free # User /\ Free # Task /\ User # Task
  BY AuthorityAssumption

LEMMA Numbers ==
    /\ MaxAttempts \in Nat /\ MaxAttempts >= 1
    /\ MaxRev \in Nat /\ MaxGen \in Nat /\ MaxFaults \in Nat
  BY AuthorityAssumption

LEMMA ManualClaimType == rev \in Revs => ManualClaim \in Claims
  BY DEF ManualClaim, Claims

LEMMA AutomationClaimType == rev \in Revs => AutomationClaim \in Claims
  BY DEF AutomationClaim, Claims

LEMMA RetakenType ==
    ASSUME TypeOK, NEW r \in Runs  PROVE Retaken(r) \in Claims \union {Nothing}
  BY AutomationClaimType DEF TypeOK, Retaken

LEMMA IdleType == Idle \in RunStates
  BY Numbers DEF Idle, RunStates, Phases, States, Revs

LEMMA StepType ==
    ASSUME TypeOK, NEW r \in Runs, NEW pc \in Phases, Step(r, pc)
    PROVE  run' \in [Runs -> RunStates]
  BY DEF TypeOK, Step, RunStates

LEMMA StepOnType ==
    ASSUME TypeOK, NEW r \in Runs, NEW pc \in Phases,
           NEW receipt \in {"none", "sent", "failed", "confirmed"}, StepOn(r, pc, receipt)
    PROVE  run' \in [Runs -> RunStates]
<1>1. [Idle EXCEPT !.pc = pc, !.receipt = receipt] \in RunStates
  BY IdleType DEF RunStates
<1>. QED  BY <1>1 DEF TypeOK, StepOn

LEMMA StepWithType ==
    ASSUME TypeOK, NEW r \in Runs, NEW pc \in Phases,
           NEW receipt \in {"none", "sent", "failed", "confirmed"}, StepWith(r, pc, receipt)
    PROVE  run' \in [Runs -> RunStates]
  BY DEF TypeOK, StepWith, RunStates

LEMMA EndsType ==
    ASSUME TypeOK, NEW r \in Runs, Ends(r)
    PROVE  run' \in [Runs -> RunStates]
  BY IdleType DEF TypeOK, Ends

\* A save leaves a claim or none, whether or not it raises.
LEMMA SaveType ==
    ASSUME TypeOK, NEW c \in Claims \union {Nothing}, Save(c) \/ SaveRaises(c)
    PROVE  /\ {auth', saved'} \subseteq Claims \union {Nothing}
           /\ faults' \in 0..MaxFaults
           /\ auth' = c /\ saved' \in {saved, c}
  BY Numbers DEF TypeOK, Save, SaveRaises, Fault

LEMMA RetriedType ==
    ASSUME TypeOK, NEW g \in 0..MaxGen, NEW sent \in BOOLEAN, Retried(g, sent)
    PROVE  /\ ob' \in Obligations \union {Nothing} /\ rec' \in Reconciles \union {Nothing}
           /\ <<ob, rec>>' = <<ob, rec>> \/ rec' = Nothing
<1>1. CASE ob # Nothing /\ (g = 0 \/ Current(g))
  <2>. DEFINE attempt == IF sent /\ ob.attempt < 1 THEN 1 ELSE ob.attempt
  <2>1. ob \in Obligations
    BY <1>1 DEF TypeOK
  <2>2. attempt \in 0..MaxAttempts
    BY <2>1, Numbers DEF Obligations
  <2>3. [ob EXCEPT !.attempt = attempt, !.asleep = TRUE] \in Obligations
    BY <2>1, <2>2 DEF Obligations
  <2>. QED  BY <1>1, <2>3 DEF Retried
<1>2. CASE ~(ob # Nothing /\ (g = 0 \/ Current(g)))
  BY <1>2 DEF Retried, TypeOK
<1>. QED  BY <1>1, <1>2

LEMMA CompletedType ==
    ASSUME TypeOK, NEW g \in 0..MaxGen, Completed(g)
    PROVE  /\ ob' \in Obligations \union {Nothing} /\ rec' \in Reconciles \union {Nothing}
           /\ <<ob, rec>>' = <<ob, rec>> \/ rec' = Nothing
  BY DEF TypeOK, Completed, Dropped

LEMMA DroppedType ==
    ASSUME Dropped
    PROVE  /\ ob' \in Obligations \union {Nothing} /\ rec' \in Reconciles \union {Nothing}
  BY DEF Dropped

LEMMA TypeInit == Init => TypeOK
<1>. SUFFICES ASSUME Init  PROVE TypeOK
  OBVIOUS
<1>1. lit \in States /\ rev \in Revs /\ gens \in 0..MaxGen /\ faults \in 0..MaxFaults
  BY Numbers DEF Init, States, Revs
<1>2. run \in [Runs -> RunStates]
  BY IdleType DEF Init
<1>. QED  BY <1>1, <1>2 DEF Init, TypeOK

---------------------------------------------------------------------------
(* Every step keeps the types.                                               *)

LEMMA SwitchType ==
    ASSUME TypeOK, NEW st \in States, Switch(st)  PROVE TypeOK'
<1>1. lit' \in States /\ rev + 1 \in Revs /\ rev' = rev + 1
  BY Numbers DEF TypeOK, Switch, Revs
<1>2. [st |-> st, rev |-> rev + 1] \in [st : States, rev : Revs]
  BY <1>1
<1>3. handlers' \subseteq [st : States, rev : Revs]
  BY <1>2 DEF TypeOK, Switch
<1>4. chosen' \in BOOLEAN
  BY DEF TypeOK, Switch
<1>. QED  BY <1>1, <1>3, <1>4 DEF TypeOK, Switch, claims, bounds

LEMMA HandlerOffType ==
    ASSUME TypeOK, NEW h \in handlers, HandlerOff(h)  PROVE TypeOK'
<1>1. /\ {auth', saved'} \subseteq Claims \union {Nothing} /\ faults' \in 0..MaxFaults
  BY SaveType DEF HandlerOff
<1>2. ob' \in Obligations \union {Nothing} /\ rec' \in Reconciles \union {Nothing}
  BY DroppedType DEF HandlerOff, TypeOK
<1>. QED  BY <1>1, <1>2 DEF TypeOK, HandlerOff, world

LEMMA HandlerOnType ==
    ASSUME TypeOK, NEW h \in handlers, HandlerOn(h)  PROVE TypeOK'
<1>0. ManualClaim \in Claims
  BY ManualClaimType DEF TypeOK
<1>1. /\ {auth', saved'} \subseteq Claims \union {Nothing} /\ faults' \in 0..MaxFaults
  BY <1>0, SaveType, Numbers DEF HandlerOn, claims, TypeOK, Fault
<1>2. ob' \in Obligations \union {Nothing} /\ rec' \in Reconciles \union {Nothing}
  BY DroppedType DEF HandlerOn, TypeOK
<1>. QED  BY <1>1, <1>2 DEF TypeOK, HandlerOn, world

LEMMA UserBeginsType ==
    ASSUME TypeOK, NEW st \in States, UserBegins(st)  PROVE TypeOK'
<1>. DEFINE claim == IF st = "on" THEN ManualClaim ELSE Nothing
<1>0. claim \in Claims \union {Nothing}
  BY ManualClaimType DEF TypeOK
<1>1. /\ {auth', saved'} \subseteq Claims \union {Nothing} /\ faults' \in 0..MaxFaults
  BY <1>0, SaveType, Numbers DEF UserBegins, claims, TypeOK, Fault
<1>2. ob' \in Obligations \union {Nothing} /\ rec' \in Reconciles \union {Nothing}
  BY DroppedType DEF UserBegins, TypeOK
<1>3. user' \in Calls \union {Nothing} /\ lock' \in Runs \union {Free, User, Task}
  BY DEF UserBegins, TypeOK, Calls
<1>4. chosen' \in BOOLEAN
  BY DEF UserBegins, TypeOK
<1>. QED  BY <1>1, <1>2, <1>3, <1>4 DEF TypeOK, UserBegins, world

LEMMA UserSendsType ==
    ASSUME TypeOK, UserSends  PROVE TypeOK'
<1>1. user.to \in States
  BY DEF TypeOK, UserSends, Calls
<1>2. lit' \in States /\ rev' \in Revs
      /\ handlers' \subseteq [st : States, rev : Revs]
  BY <1>1, Numbers DEF TypeOK, UserSends, Revs, world
<1>. QED  BY <1>2 DEF TypeOK, UserSends, claims, bounds

LEMMA UserFailsType ==
    ASSUME TypeOK, UserFails  PROVE TypeOK'
<1>1. user.before \in Claims \union {Nothing}
  BY DEF TypeOK, UserFails, Calls
<1>2. /\ {auth', saved'} \subseteq Claims \union {Nothing} /\ faults' \in 0..MaxFaults
  BY <1>1, SaveType DEF UserFails, claims, TypeOK
<1>3. chosen' \in BOOLEAN
  BY DEF UserFails, TypeOK
<1>. QED  BY <1>2, <1>3 DEF TypeOK, UserFails, world

LEMMA ReleaseManualType ==
    ASSUME TypeOK, ReleaseManual  PROVE TypeOK'
<1>2. /\ {auth', saved'} \subseteq Claims \union {Nothing} /\ faults' \in 0..MaxFaults
  BY SaveType DEF ReleaseManual
<1>. QED  BY <1>2 DEF TypeOK, ReleaseManual, world

LEMMA PlanType ==
    ASSUME TypeOK, NEW r \in Runs, Plan(r)  PROVE TypeOK'
<1>1. auth' \in Claims \union {Nothing}
  BY DEF TypeOK, Plan
<1>2. run' \in [Runs -> RunStates]
  BY <1>1, Numbers DEF TypeOK, Plan, RunStates, Phases
<1>. QED  BY <1>1, <1>2 DEF TypeOK, Plan, world, bounds

LEMMA SupersedeType ==
    ASSUME TypeOK, NEW r \in Runs, Supersede(r)  PROVE TypeOK'
<1>1. run' \in [Runs -> RunStates]
  BY StepType, StepOnType DEF Supersede, Phases
<1>2. lock' \in Runs \union {Free, User, Task}
  BY DEF TypeOK, Supersede, LockAfter
<1>. QED  BY <1>1, <1>2, DroppedType DEF TypeOK, Supersede, world, claims, bounds

LEMMA GuardType ==
    ASSUME TypeOK, NEW r \in Runs, Guard(r)  PROVE TypeOK'
<1>1. run' \in [Runs -> RunStates]
  BY EndsType DEF Guard
<1>2. /\ {auth', saved'} \subseteq Claims \union {Nothing} /\ faults' \in 0..MaxFaults
  BY ManualClaimType, SaveType DEF Guard, TypeOK
<1>. QED  BY <1>1, <1>2 DEF TypeOK, Guard, world

LEMMA AcquireOnType ==
    ASSUME TypeOK, NEW r \in Runs, AcquireOn(r)  PROVE TypeOK'
<1>1. run' \in [Runs -> RunStates]
  BY StepType DEF AcquireOn, Phases
<1>. QED  BY <1>1 DEF TypeOK, AcquireOn, world, claims, bounds

LEMMA ClaimOnType ==
    ASSUME TypeOK, NEW r \in Runs, ClaimOn(r)  PROVE TypeOK'
<1>1. run' \in [Runs -> RunStates]
  BY StepType, EndsType DEF ClaimOn, Phases
<1>2. /\ {auth', saved'} \subseteq Claims \union {Nothing} /\ faults' \in 0..MaxFaults
  BY ManualClaimType, SaveType DEF ClaimOn, TypeOK, claims
<1>3. lock' \in Runs \union {Free, User, Task}
  BY DEF TypeOK, ClaimOn
<1>. QED  BY <1>1, <1>2, <1>3 DEF TypeOK, ClaimOn, world

LEMMA SendOnType ==
    ASSUME TypeOK, NEW r \in Runs, SendOn(r)  PROVE TypeOK'
<1>1. run' \in [Runs -> RunStates]
  BY StepWithType DEF SendOn, Phases
<1>2. lit' \in States /\ rev' \in Revs
  BY Numbers DEF TypeOK, SendOn, Revs, States, world
<1>. QED  BY <1>1, <1>2 DEF TypeOK, SendOn, claims, bounds

\* What the end of a group that switches on does to the claim and the run.
LEMMA NoteOnParts ==
    ASSUME NEW r \in Runs, NoteOn(r)
    PROVE  \E ours \in BOOLEAN :
             LET left  == IF run[r].lit = "off" /\ auth = run[r].claim THEN Nothing ELSE auth
                 claim == IF ours /\ (left = Nothing \/ left.kind # "manual")
                            THEN AutomationClaim ELSE left
             IN  /\ ours => run[r].lit = "off" /\ lit = "on"
                 /\ Save(claim) \/ SaveRaises(claim)
                 /\ \/ Ends(r)
                    \/ StepOn(r, "note_delay", IF ours THEN "confirmed" ELSE "none")
<1>1. PICK confirmed \in BOOLEAN :
        /\ confirmed => run[r].receipt = "sent" /\ lit = "on"
        /\ LET ours  == confirmed /\ run[r].lit = "off"
               left  == IF run[r].lit = "off" /\ auth = run[r].claim THEN Nothing ELSE auth
               claim == IF ours /\ (left = Nothing \/ left.kind # "manual")
                          THEN AutomationClaim ELSE left
           IN  \/ /\ Save(claim)
                  /\ IF run[r].receipt = "failed" THEN Ends(r)
                     ELSE StepOn(r, "note_delay", IF ours THEN "confirmed" ELSE "none")
               \/ SaveRaises(claim) /\ Ends(r)
  BY DEF NoteOn
<1>. DEFINE ours == confirmed /\ run[r].lit = "off"
<1>2. ours \in BOOLEAN
  OBVIOUS
<1>. QED  BY <1>1, <1>2

LEMMA NoteOnType ==
    ASSUME TypeOK, NEW r \in Runs, NoteOn(r)  PROVE TypeOK'
<1>1. PICK ours \in BOOLEAN :
        LET left  == IF run[r].lit = "off" /\ auth = run[r].claim THEN Nothing ELSE auth
            claim == IF ours /\ (left = Nothing \/ left.kind # "manual")
                       THEN AutomationClaim ELSE left
        IN  /\ ours => run[r].lit = "off" /\ lit = "on"
            /\ Save(claim) \/ SaveRaises(claim)
            /\ \/ Ends(r)
               \/ StepOn(r, "note_delay", IF ours THEN "confirmed" ELSE "none")
  BY NoteOnParts
<1>. DEFINE left  == IF run[r].lit = "off" /\ auth = run[r].claim THEN Nothing ELSE auth
            claim == IF ours /\ (left = Nothing \/ left.kind # "manual")
                       THEN AutomationClaim ELSE left
<1>2. run' \in [Runs -> RunStates]
  BY <1>1, StepOnType, EndsType DEF Phases
<1>3. claim \in Claims \union {Nothing}
  BY AutomationClaimType DEF TypeOK
<1>4. Save(claim) \/ SaveRaises(claim)
  BY <1>1
<1>. HIDE DEF claim
<1>5. /\ {auth', saved'} \subseteq Claims \union {Nothing} /\ faults' \in 0..MaxFaults
  BY <1>3, <1>4, SaveType
<1>. QED  BY <1>2, <1>5 DEF TypeOK, NoteOn, world

LEMMA NoteDelayType ==
    ASSUME TypeOK, NEW r \in Runs, NoteDelay(r)  PROVE TypeOK'
<1>1. run' \in [Runs -> RunStates]
  BY StepType, EndsType DEF NoteDelay, Phases
<1>2. /\ {auth', saved'} \subseteq Claims \union {Nothing} /\ faults' \in 0..MaxFaults
  BY RetakenType, SaveType DEF NoteDelay
<1>3. chosen' \in BOOLEAN
  BY DEF NoteDelay, TypeOK
<1>. QED  BY <1>1, <1>2, <1>3 DEF TypeOK, NoteDelay, world

LEMMA ArmType ==
    ASSUME TypeOK, NEW r \in Runs, Arm(r)  PROVE TypeOK'
<1>1. CASE gens < MaxGen /\ gens' = gens + 1 /\ lock' = LockAfter(lock) /\ rec' = Nothing
           /\ ob' = [gen |-> gens + 1, rev |-> rev, attempt |-> 0, asleep |-> FALSE]
           /\ run' = [run EXCEPT ![r].pc = "lock_off", ![r].gen = gens + 1]
  <2>1. gens + 1 \in 1..MaxGen
    BY <1>1, Numbers DEF TypeOK
  <2>2. ob' \in Obligations
    <3>1. 0 \in 0..MaxAttempts /\ rev \in Revs
      BY Numbers DEF TypeOK
    <3>. QED  BY <1>1, <2>1, <3>1 DEF Obligations
  <2>3. run' \in [Runs -> RunStates]
    <3>1. run' = [run EXCEPT ![r].pc = "lock_off", ![r].gen = gens + 1]
      BY <1>1
    <3>2. gens + 1 \in 0..MaxGen
      BY <2>1
    <3>3. [run[r] EXCEPT !.pc = "lock_off", !.gen = gens + 1] \in RunStates
      BY <3>2 DEF TypeOK, RunStates, Phases
    <3>4. run' = [run EXCEPT ![r] = [run[r] EXCEPT !.pc = "lock_off", !.gen = gens + 1]]
      BY <3>1 DEF TypeOK, RunStates
    <3>. QED  BY <3>3, <3>4 DEF TypeOK
  <2>4. lock' \in Runs \union {Free, User, Task}
    BY <1>1 DEF TypeOK, LockAfter
  <2>. QED  BY <1>1, <2>1, <2>2, <2>3, <2>4 DEF TypeOK, Arm, world, claims
<1>2. CASE (Step(r, "lock_off") \/ Ends(r)) /\ UNCHANGED <<gens, ob, rec, lock>>
  <2>1. run' \in [Runs -> RunStates]
    BY <1>2, StepType, EndsType DEF Phases
  <2>. QED  BY <1>2, <2>1 DEF TypeOK, Arm, world, claims
<1>. QED  BY <1>1, <1>2 DEF Arm

LEMMA AcquireOffType ==
    ASSUME TypeOK, NEW r \in Runs, AcquireOff(r)  PROVE TypeOK'
<1>1. run' \in [Runs -> RunStates]
  BY StepType DEF AcquireOff, Phases
<1>. QED  BY <1>1 DEF TypeOK, AcquireOff, world, claims, bounds

LEMMA CheckOffType ==
    ASSUME TypeOK, NEW r \in Runs, CheckOff(r)  PROVE TypeOK'
<1>1. run' \in [Runs -> RunStates]
  BY StepType, EndsType DEF CheckOff, Phases
<1>2. run[r].gen \in 0..MaxGen
  BY DEF TypeOK, RunStates
<1>3. ob' \in Obligations \union {Nothing} /\ rec' \in Reconciles \union {Nothing}
  BY <1>2, CompletedType DEF TypeOK, CheckOff
<1>4. lock' \in Runs \union {Free, User, Task}
  BY DEF TypeOK, CheckOff
<1>5. /\ {auth', saved'} \subseteq Claims \union {Nothing} /\ faults' \in 0..MaxFaults
  <2>1. Save(auth) \/ SaveRaises(auth) \/ UNCHANGED <<claims, faults>>
    BY DEF CheckOff
  <2>. QED  BY <2>1, SaveType DEF TypeOK, claims
<1>. QED  BY <1>1, <1>3, <1>4, <1>5 DEF TypeOK, CheckOff, world

LEMMA SwitchedOffType ==
    ASSUME TypeOK, SwitchedOff \/ UNCHANGED <<world, chosen>>
    PROVE  lit' \in States /\ rev' \in Revs /\ chosen' \in BOOLEAN
<1>1. CASE SwitchedOff
  <2>1. lit' = "off" /\ chosen' = FALSE /\ rev' = rev + 1 /\ rev < MaxRev
    BY <1>1 DEF SwitchedOff
  <2>2. rev' \in Revs
    BY <2>1, Numbers DEF TypeOK, Revs
  <2>. QED  BY <2>1, <2>2 DEF States
<1>2. CASE UNCHANGED <<world, chosen>>
  BY <1>2 DEF TypeOK, world
<1>. QED  BY <1>1, <1>2

LEMMA SendOffType ==
    ASSUME TypeOK, NEW r \in Runs, SendOff(r)  PROVE TypeOK'
<1>1. run' \in [Runs -> RunStates]
  BY StepType, StepWithType DEF SendOff, Phases
<1>2. lit' \in States /\ rev' \in Revs /\ chosen' \in BOOLEAN
  BY SwitchedOffType DEF SendOff
<1>. QED  BY <1>1, <1>2 DEF TypeOK, SendOff, claims, bounds

LEMMA NoteOffType ==
    ASSUME TypeOK, NEW r \in Runs, NoteOff(r)  PROVE TypeOK'
<1>1. run' \in [Runs -> RunStates]
  BY EndsType DEF NoteOff
<1>2. run[r].gen \in 0..MaxGen
  BY DEF TypeOK, RunStates
<1>3. ob' \in Obligations \union {Nothing} /\ rec' \in Reconciles \union {Nothing}
  BY <1>2, CompletedType, RetriedType DEF NoteOff
<1>4. (IF run[r].receipt = "none" \/ Manual THEN auth ELSE Nothing) \in Claims \union {Nothing}
  BY DEF TypeOK
<1>5. /\ {auth', saved'} \subseteq Claims \union {Nothing} /\ faults' \in 0..MaxFaults
  BY <1>4, SaveType DEF NoteOff
<1>. QED  BY <1>1, <1>3, <1>5 DEF TypeOK, NoteOff, world

LEMMA FailedOffType ==
    ASSUME TypeOK, NEW r \in Runs, FailedOff(r)  PROVE TypeOK'
<1>1. run' \in [Runs -> RunStates]
  BY EndsType DEF FailedOff
<1>2. run[r].gen \in 0..MaxGen
  BY DEF TypeOK, RunStates
<1>3. ob' \in Obligations \union {Nothing} /\ rec' \in Reconciles \union {Nothing}
  BY <1>2, RetriedType DEF FailedOff
<1>4. /\ {auth', saved'} \subseteq Claims \union {Nothing} /\ faults' \in 0..MaxFaults
  BY RetakenType, SaveType DEF FailedOff
<1>. QED  BY <1>1, <1>3, <1>4 DEF TypeOK, FailedOff, world

LEMMA CancelRunType ==
    ASSUME TypeOK, NEW r \in Runs, CancelRun(r)  PROVE TypeOK'
<1>1. run' \in [Runs -> RunStates]
  BY EndsType DEF CancelRun
<1>. QED  BY <1>1 DEF TypeOK, CancelRun, world, claims, bounds

LEMMA WakeType ==
    ASSUME TypeOK, Wake  PROVE TypeOK'
<1>1. ob' \in Obligations
  BY Numbers DEF TypeOK, Wake, Obligations
<1>. QED  BY <1>1 DEF TypeOK, Wake, Reconciles, world, claims, bounds

LEMMA ReconcileLocksType ==
    ASSUME TypeOK, ReconcileLocks  PROVE TypeOK'
  BY DEF TypeOK, ReconcileLocks, Reconciles, Refused, Dropped, world, claims, bounds

LEMMA ReconcileSendsType ==
    ASSUME TypeOK, ReconcileSends  PROVE TypeOK'
<1>2. lit' \in States /\ rev' \in Revs /\ chosen' \in BOOLEAN
  BY SwitchedOffType DEF ReconcileSends, Refused
<1>. QED  BY <1>2 DEF TypeOK, ReconcileSends, Reconciles, Refused, Dropped, claims, bounds

LEMMA ReconcileConfirmsType ==
    ASSUME TypeOK, ReconcileConfirms  PROVE TypeOK'
  BY DEF TypeOK, ReconcileConfirms, Reconciles, world, claims, bounds

LEMMA StopType ==
    ASSUME TypeOK, Stop  PROVE TypeOK'
<1>1. faults' \in 0..MaxFaults
  BY Numbers DEF TypeOK, Stop, Fault
<1>2. run' \in [Runs -> RunStates]
  BY IdleType DEF Stop
<1>. QED  BY <1>1, <1>2 DEF TypeOK, Stop, world, claims

LEMMA StartType ==
    ASSUME TypeOK, Start  PROVE TypeOK'
<1>1. ob' \in Obligations \union {Nothing}
  BY DEF TypeOK, Start, Obligations
<1>. QED  BY <1>1 DEF TypeOK, Start, world, bounds

LEMMA TypeNext == TypeOK /\ [Next]_vars => TypeOK'
<1>. SUFFICES ASSUME TypeOK, [Next]_vars  PROVE TypeOK'
  OBVIOUS
<1>1. CASE UNCHANGED vars
  BY <1>1 DEF TypeOK, vars, world, claims, bounds
<1>2. CASE Next
  BY <1>2, SwitchType, HandlerOffType, HandlerOnType, UserBeginsType,
     UserSendsType, UserFailsType, ReleaseManualType, PlanType, SupersedeType, GuardType,
     AcquireOnType, ClaimOnType, SendOnType, NoteOnType, NoteDelayType, ArmType, AcquireOffType,
     CheckOffType, SendOffType, NoteOffType, FailedOffType, CancelRunType, WakeType,
     ReconcileLocksType, ReconcileSendsType, ReconcileConfirmsType, StopType, StartType
     DEF Next
<1>. QED  BY <1>1, <1>2

\* The types of the variables, for any constants.
THEOREM Types == Spec => []TypeOK
  BY TypeInit, TypeNext, PTL DEF Spec

---------------------------------------------------------------------------
(* The lock.                                                                 *)

\* The run is at pc, and the other runs are where they were.
Moves(r, pc) == run'[r].pc = pc /\ \A q \in Runs \ {r} : run'[q] = run[q]

LEMMA StepMoves ==
    ASSUME TypeOK, NEW r \in Runs, NEW pc, Step(r, pc)
    PROVE  /\ Moves(r, pc)
           /\ run'[r].lit = run[r].lit /\ run'[r].claim = run[r].claim
  BY DEF TypeOK, Step, Moves, RunStates

LEMMA StepWithMoves ==
    ASSUME TypeOK, NEW r \in Runs, NEW pc, NEW receipt, StepWith(r, pc, receipt)
    PROVE  /\ Moves(r, pc)
           /\ run'[r].lit = run[r].lit /\ run'[r].claim = run[r].claim
  BY DEF TypeOK, StepWith, Moves, RunStates

LEMMA StepOnMoves ==
    ASSUME TypeOK, NEW r \in Runs, NEW pc, NEW receipt, StepOn(r, pc, receipt)
    PROVE  /\ Moves(r, pc)
           /\ run'[r].lit = "off" /\ run'[r].claim = Nothing
  BY DEF TypeOK, StepOn, Moves, Idle

LEMMA EndsMoves ==
    ASSUME TypeOK, NEW r \in Runs, Ends(r)
    PROVE  /\ Moves(r, "idle")
           /\ run'[r].lit = "off" /\ run'[r].claim = Nothing
  BY DEF TypeOK, Ends, Moves, Idle

\* The holders other than runs, and what they are doing.
HoldersInv ==
    /\ lock = User <=> user # Nothing
    /\ lock = Task <=> rec \in {"send", "confirm", "relock"}

RunsInv == \A r \in Runs : run[r].pc \in Locked <=> lock = r

\* A run moves, and the lock with it.
LEMMA MovesLock ==
    ASSUME RunsInv, NEW r \in Runs, NEW pc, Moves(r, pc),
           pc \in Locked <=> lock' = r,
           \A q \in Runs \ {r} : lock' = q <=> lock = q
    PROVE  RunsInv'
  BY DEF RunsInv, Moves

LEMMA SameRuns ==
    ASSUME RunsInv, run' = run, \A q \in Runs : lock' = q <=> lock = q
    PROVE  RunsInv'
  BY DEF RunsInv

LEMMA PersonLock ==
    ASSUME TypeOK, LockInv,
           \/ \E st \in States : Switch(st)
           \/ \E h \in handlers : HandlerOff(h) \/ HandlerOn(h)
           \/ \E st \in States : UserBegins(st)
           \/ UserSends \/ UserFails \/ ReleaseManual
    PROVE  LockInv'
<1>0. RunsInv /\ HoldersInv
  BY DEF LockInv, RunsInv, HoldersInv
<1>1. run' = run /\ \A q \in Runs : lock' = q <=> lock = q
  BY <1>0, Sorts DEF HoldersInv, Switch, HandlerOff, HandlerOn, UserBegins,
     UserSends, UserFails, ReleaseManual
<1>2. RunsInv'
  BY <1>0, <1>1, SameRuns
<1>3. HoldersInv'
  <2>1. CASE \E st \in States : Switch(st)
    BY <1>0, <2>1 DEF HoldersInv, Switch
  <2>2. CASE \E h \in handlers : HandlerOff(h) \/ HandlerOn(h)
    BY <1>0, <2>2, Sorts DEF HoldersInv, HandlerOff, HandlerOn, Dropped,
       Reconciles
  <2>3. CASE \E st \in States : UserBegins(st)
    <3>1. PICK st \in States : UserBegins(st)
      BY <2>3
    <3>2. lock = Free /\ user = Nothing
      BY <3>1 DEF UserBegins
    <3>3. rec \notin {"send", "confirm", "relock"} /\ rec' \in {rec, Nothing}
      BY <1>0, <3>1, <3>2, Sorts DEF HoldersInv, UserBegins, Dropped
    <3>4. rec' \notin {"send", "confirm", "relock"}
      BY <3>3, Sorts DEF Reconciles
    <3>5. CASE user' = user /\ lock' = lock
      BY <3>2, <3>4, <3>5, Sorts DEF HoldersInv
    <3>6. CASE lock' = User /\ user' = [to |-> st, before |-> auth, chosen |-> chosen]
      <4>1. user' \in Calls
        BY <3>6 DEF TypeOK, Calls
      <4>. QED  BY <3>4, <3>6, <4>1, Sorts DEF HoldersInv
    <3>. QED  BY <3>1, <3>5, <3>6 DEF UserBegins
  <2>4. CASE UserSends \/ UserFails
    BY <1>0, <2>4, Sorts DEF HoldersInv, UserSends, UserFails
  <2>5. CASE ReleaseManual
    BY <1>0, <2>5 DEF HoldersInv, ReleaseManual
  <2>. QED  BY <2>1, <2>2, <2>3, <2>4, <2>5
<1>. QED  BY <1>2, <1>3 DEF LockInv, RunsInv, HoldersInv

\* Steps of a run that leave the reconciler alone.
LEMMA RunLock ==
    ASSUME TypeOK, LockInv, NEW r \in Runs,
           \/ Plan(r) \/ Guard(r) \/ AcquireOn(r) \/ ClaimOn(r) \/ SendOn(r) \/ NoteOn(r)
           \/ NoteDelay(r) \/ AcquireOff(r) \/ SendOff(r) \/ CancelRun(r)
    PROVE  LockInv'
<1>0. RunsInv /\ HoldersInv
  BY DEF LockInv, RunsInv, HoldersInv
<1>1. user' = user /\ rec' = rec
  BY DEF Plan, Guard, AcquireOn, ClaimOn, SendOn, NoteOn, NoteDelay, AcquireOff, SendOff,
     CancelRun
<1>2. /\ lock' \in {lock, r, Free}
      /\ lock' # lock => lock \in {r, Free}
      /\ \E pc \in Phases : Moves(r, pc) /\ (pc \in Locked <=> lock' = r)
  <2>1. CASE Plan(r)
    <3>1. Moves(r, "planned")
      BY <2>1 DEF Plan, Moves, TypeOK
    <3>. QED  BY <2>1, <3>1, <1>0 DEF Plan, RunsInv, Locked, Phases
  <2>2. CASE Guard(r)
    BY <2>2, EndsMoves, <1>0 DEF Guard, RunsInv, Locked, Phases
  <2>3. CASE AcquireOn(r)
    BY <2>3, StepMoves DEF AcquireOn, Locked, Phases
  <2>4. CASE ClaimOn(r)
    <3>1. lock = r
      BY <2>4, <1>0 DEF ClaimOn, RunsInv, Locked
    <3>2. \/ lock' = lock /\ (Step(r, "note_on") \/ Step(r, "send_on"))
          \/ lock' = Free /\ Ends(r)
      BY <2>4 DEF ClaimOn
    <3>. QED  BY <3>1, <3>2, StepMoves, EndsMoves, Sorts DEF Locked, Phases
  <2>5. CASE SendOn(r)
    <3>1. lock = r
      BY <2>5, <1>0 DEF SendOn, RunsInv, Locked
    <3>2. lock' = lock /\ \E receipt : StepWith(r, "note_on", receipt)
      BY <2>5 DEF SendOn
    <3>. QED  BY <3>1, <3>2, StepWithMoves DEF Locked, Phases
  <2>6. CASE NoteOn(r)
    <3>1. lock = r
      BY <2>6, <1>0 DEF NoteOn, RunsInv, Locked
    <3>2. lock' = Free
      BY <2>6 DEF NoteOn
    <3>3. Ends(r) \/ \E receipt : StepOn(r, "note_delay", receipt)
      BY <2>6, NoteOnParts
    <3>. QED  BY <3>1, <3>2, <3>3, StepOnMoves, EndsMoves, Sorts DEF Locked, Phases
  <2>7. CASE AcquireOff(r)
    BY <2>7, StepMoves DEF AcquireOff, Locked, Phases
  <2>8. CASE SendOff(r)
    <3>1. lock = r /\ lock' = lock
      BY <2>8, <1>0 DEF SendOff, RunsInv, Locked
    <3>2. (\E receipt : StepWith(r, "note_off", receipt)) \/ Step(r, "failed_off")
      BY <2>8 DEF SendOff
    <3>. QED  BY <3>1, <3>2, StepMoves, StepWithMoves DEF Locked, Phases
  <2>9. CASE CancelRun(r)
    BY <2>9, EndsMoves, Sorts DEF CancelRun, Locked, Phases
  <2>10. CASE NoteDelay(r)
    <3>1. lock = Free /\ lock' = lock /\ (Step(r, "arm") \/ Ends(r))
      BY <2>10 DEF NoteDelay
    <3>. QED  BY <3>1, StepMoves, EndsMoves, Sorts DEF Locked, Phases
  <2>. QED  BY <2>1, <2>2, <2>3, <2>4, <2>5, <2>6, <2>7, <2>8, <2>9, <2>10
<1>3. \A q \in Runs \ {r} : lock' = q <=> lock = q
  BY <1>2, Sorts
<1>4. RunsInv'
  BY <1>0, <1>2, <1>3, MovesLock
<1>5. HoldersInv'
  BY <1>0, <1>1, <1>2, Sorts DEF HoldersInv
<1>. QED  BY <1>4, <1>5 DEF LockInv, RunsInv, HoldersInv

\* Steps of a run outside of the lock that may end the reconciler.
LEMMA UnlockedLock ==
    ASSUME TypeOK, LockInv, NEW r \in Runs, Supersede(r) \/ Arm(r)
    PROVE  LockInv'
<1>0. RunsInv /\ HoldersInv
  BY DEF LockInv, RunsInv, HoldersInv
<1>1. \E pc \in Phases \ Locked : Moves(r, pc)
  <2>1. CASE Supersede(r)
    BY <2>1, StepMoves, StepOnMoves DEF Supersede, Phases, Locked
  <2>2. CASE Arm(r)
    <3>1. Moves(r, "lock_off") \/ Moves(r, "idle")
      BY <2>2, StepMoves, EndsMoves DEF Arm, Moves, TypeOK, RunStates
    <3>. QED  BY <3>1 DEF Phases, Locked
  <2>. QED  BY <2>1, <2>2
<1>2. lock # r
  BY <1>0 DEF RunsInv, Supersede, Arm, Locked
<1>3. \/ rec' = Nothing /\ lock' = LockAfter(lock)
      \/ rec' = rec /\ lock' = lock
  BY DEF Supersede, Dropped, Arm
<1>4. user' = user
  BY DEF Supersede, Arm
<1>5. lock' # r /\ \A q \in Runs \ {r} : lock' = q <=> lock = q
  BY <1>2, <1>3, Sorts DEF LockAfter
<1>6. RunsInv'
  BY <1>0, <1>1, <1>5, MovesLock
<1>7. HoldersInv'
  BY <1>0, <1>3, <1>4, Sorts DEF HoldersInv, LockAfter, Reconciles
<1>. QED  BY <1>6, <1>7 DEF LockInv, RunsInv, HoldersInv

\* Steps of a run with the lock that may end the obligation: its reconciler does not
\* have the lock.
LEMMA OffLock ==
    ASSUME TypeOK, LockInv, NEW r \in Runs, CheckOff(r) \/ NoteOff(r) \/ FailedOff(r)
    PROVE  LockInv'
<1>0. RunsInv /\ HoldersInv
  BY DEF LockInv, RunsInv, HoldersInv
<1>1. lock = r
  BY <1>0 DEF RunsInv, CheckOff, NoteOff, FailedOff, Locked
<1>2. \/ lock' = Free /\ Ends(r)
      \/ lock' = lock /\ Step(r, "send_off")
  BY DEF CheckOff, NoteOff, FailedOff
<1>3. run[r].gen \in 0..MaxGen
  BY DEF TypeOK, RunStates
<1>4. rec' = rec \/ rec' = Nothing
  BY <1>3, CompletedType, RetriedType DEF CheckOff, NoteOff, FailedOff
<1>5. \E pc \in Phases : Moves(r, pc) /\ (pc \in Locked <=> lock' = r)
  BY <1>1, <1>2, StepMoves, EndsMoves, Sorts DEF Phases, Locked
<1>6. \A q \in Runs \ {r} : lock' = q <=> lock = q
  BY <1>1, <1>2, Sorts
<1>7. RunsInv'
  BY <1>0, <1>5, <1>6, MovesLock
<1>8. user' = user
  BY DEF CheckOff, NoteOff, FailedOff
<1>9. HoldersInv'
  BY <1>0, <1>1, <1>2, <1>4, <1>8, Sorts DEF HoldersInv, Reconciles
<1>. QED  BY <1>7, <1>9 DEF LockInv, RunsInv, HoldersInv

LEMMA ReconcilerLock ==
    ASSUME TypeOK, LockInv,
           Wake \/ ReconcileLocks \/ ReconcileSends \/ ReconcileConfirms \/ Start
    PROVE  LockInv'
<1>0. RunsInv /\ HoldersInv
  BY DEF LockInv, RunsInv, HoldersInv
<1>1. run' = run /\ user' = user
  BY DEF Wake, ReconcileLocks, ReconcileSends, ReconcileConfirms, Start
<1>2. \A q \in Runs : lock' = q <=> lock = q
  BY <1>0, Sorts DEF HoldersInv, Wake, ReconcileLocks, ReconcileSends, ReconcileConfirms,
     Start, Refused
<1>3. RunsInv'
  BY <1>0, <1>1, <1>2, SameRuns
<1>4. HoldersInv'
  <2>1. CASE Wake \/ Start
    BY <1>0, <2>1, Sorts DEF HoldersInv, Wake, Start, Reconciles
  <2>2. CASE ReconcileLocks
    BY <1>0, <2>2, Sorts DEF HoldersInv, ReconcileLocks, Refused, Dropped, Reconciles
  <2>3. CASE ReconcileSends
    BY <1>0, <2>3, Sorts DEF HoldersInv, ReconcileSends, Refused, Dropped, Reconciles
  <2>4. CASE ReconcileConfirms
    BY <1>0, <2>4, Sorts DEF HoldersInv, ReconcileConfirms, Reconciles
  <2>. QED  BY <2>1, <2>2, <2>3, <2>4
<1>. QED  BY <1>3, <1>4 DEF LockInv, RunsInv, HoldersInv

LEMMA StopLock ==
    ASSUME TypeOK, Stop  PROVE LockInv'
<1>1. \A q \in Runs : run'[q].pc = "idle"
  BY DEF Stop, Idle
<1>2. lock' = Free /\ user' = Nothing /\ rec' = Nothing
  BY DEF Stop
<1>. QED  BY <1>1, <1>2, Sorts DEF LockInv, Locked, Reconciles

LEMMA LockInit == Init => LockInv
<1>. SUFFICES ASSUME Init  PROVE LockInv
  OBVIOUS
<1>1. \A q \in Runs : run[q].pc = "idle"
  BY DEF Init, Idle
<1>. QED  BY <1>1, Sorts DEF Init, LockInv, Locked, Reconciles

LEMMA LockNext == TypeOK /\ LockInv /\ [Next]_vars => LockInv'
<1>. SUFFICES ASSUME TypeOK, LockInv, [Next]_vars  PROVE LockInv'
  OBVIOUS
<1>1. CASE UNCHANGED vars
  BY <1>1 DEF LockInv, vars
<1>2. CASE Next
  BY <1>2, PersonLock, RunLock, UnlockedLock, OffLock, ReconcilerLock, StopLock DEF Next
<1>. QED  BY <1>1, <1>2

\* The authority lock has a holder that goes on, or nobody has it: whatever runs are
\* cancelled, saves fail or obligations end.
THEOREM LockServed == Spec => []LockIsServed
<1>1. LockInv => LockIsServed
  BY DEF LockInv, LockIsServed
<1>. QED  BY <1>1, TypeInit, TypeNext, LockInit, LockNext, PTL DEF Spec

---------------------------------------------------------------------------
(* What a person has claimed.                                                *)

LEMMA DownNext ==
    ASSUME TypeOK, DownInv, [Next]_vars
    PROVE  DownInv'
<1>1. CASE UNCHANGED vars
  BY <1>1 DEF DownInv, vars
<1>2. CASE Stop
  BY <1>2 DEF DownInv, Stop, Idle
<1>3. CASE Start
  BY <1>3 DEF DownInv, Start
<1>4. CASE \E r \in Runs : Plan(r)
  BY <1>4 DEF DownInv, Plan
<1>5. CASE \E r \in Runs : \/ Supersede(r) \/ Guard(r) \/ AcquireOn(r) \/ ClaimOn(r) \/ SendOn(r)
                           \/ NoteOn(r) \/ NoteDelay(r) \/ Arm(r)
  BY <1>5 DEF DownInv, Supersede, Guard, AcquireOn, ClaimOn, SendOn, NoteOn, NoteDelay, Arm
<1>6. CASE \E r \in Runs : \/ AcquireOff(r) \/ CheckOff(r) \/ SendOff(r) \/ NoteOff(r)
                           \/ FailedOff(r) \/ CancelRun(r)
  <2>1. up' = up /\ \E r \in Runs : run[r].pc # "idle"
    BY <1>6 DEF AcquireOff, CheckOff, SendOff, NoteOff, FailedOff, CancelRun
  <2>. QED  BY <2>1 DEF DownInv
<1>7. CASE \/ \E st \in States : Switch(st) \/ UserBegins(st)
           \/ \E h \in handlers : HandlerOff(h) \/ HandlerOn(h)
           \/ UserSends \/ UserFails \/ ReleaseManual
  BY <1>7 DEF DownInv, Switch, HandlerOff, HandlerOn, UserBegins, UserSends,
     UserFails, ReleaseManual
<1>8. CASE Wake \/ ReconcileLocks \/ ReconcileSends \/ ReconcileConfirms
  BY <1>8 DEF DownInv, Wake, ReconcileLocks, ReconcileSends, ReconcileConfirms
<1>. QED  BY <1>1, <1>2, <1>3, <1>4, <1>5, <1>6, <1>7, <1>8 DEF Next

\* A run that has not the lock does not mind who claims what; one that has it does not
\* mind less being claimed.
Harmless ==
    \/ \A q \in Runs : run[q].pc \notin Locked
    \/ chosen' => chosen /\ (Manual => Manual')

LEMMA OtherRun ==
    ASSUME RunInv, NEW q \in Runs, run'[q] = run[q],
           run[q].pc \notin Locked \/ (chosen' => chosen /\ (Manual => Manual'))
    PROVE  RunOK(q)'
  BY DEF RunInv, RunOK, Locked

LEMMA SameRunInv ==
    ASSUME RunInv, run' = run, Harmless
    PROVE  RunInv'
<1>1. ASSUME NEW q \in Runs  PROVE RunOK(q)'
  BY OtherRun DEF Harmless
<1>. QED  BY <1>1 DEF RunInv

LEMMA MovesRunInv ==
    ASSUME RunInv, NEW r \in Runs, NEW pc, Moves(r, pc), RunOK(r)',
           \/ \A q \in Runs \ {r} : run[q].pc \notin Locked
           \/ chosen' => chosen /\ (Manual => Manual')
    PROVE  RunInv'
<1>1. ASSUME NEW q \in Runs \ {r}  PROVE RunOK(q)'
  BY OtherRun DEF Moves
<1>. QED  BY <1>1 DEF RunInv

\* Whoever takes the lock, or has it, knows that no run, or no other run, has it.
LEMMA AloneWithLock ==
    ASSUME LockInv
    PROVE  /\ lock \in {Free, User, Task} => \A q \in Runs : run[q].pc \notin Locked
           /\ \A r \in Runs : run[r].pc \in Locked =>
                /\ \A q \in Runs \ {r} : run[q].pc \notin Locked
                /\ user = Nothing
           /\ lock = Free => user = Nothing
  BY Sorts DEF LockInv

LEMMA SwitchOwn ==
    ASSUME IInv, NEW st \in States, Switch(st)
    PROVE  ChosenInv' /\ UserInv' /\ RunInv'
<1>1. ~chosen'
  BY DEF IInv, TypeOK, ChosenInv, Switch, States
<1>2. run' = run /\ user' = user /\ auth' = auth /\ saved' = saved
  BY DEF Switch, claims
<1>3. UserInv'
  BY <1>1, <1>2 DEF IInv, UserInv
<1>4. RunInv'
  BY <1>1, <1>2, SameRunInv DEF IInv, Harmless
<1>. QED  BY <1>1, <1>3, <1>4 DEF ChosenInv

LEMMA HandlersOwn ==
    ASSUME IInv, NEW h \in handlers, HandlerOff(h) \/ HandlerOn(h)
    PROVE  ChosenInv' /\ UserInv' /\ RunInv'
<1>1. run' = run /\ user' = user /\ lit' = lit /\ rev' = rev
  BY DEF HandlerOff, HandlerOn, world
<1>2. user = Nothing /\ \A q \in Runs : run[q].pc \notin Locked
  BY AloneWithLock DEF IInv, HandlerOff, HandlerOn
<1>3. RunInv'
  BY <1>1, <1>2, SameRunInv DEF IInv, Harmless
<1>4. UserInv'
  BY <1>1, <1>2 DEF UserInv
<1>5. CASE HandlerOff(h)
  <2>1. auth' = Nothing /\ saved' \in {saved, Nothing} /\ chosen' = chosen
    BY <1>5 DEF HandlerOff, Save, SaveRaises
  <2>2. ChosenInv'
    BY <1>1, <2>1 DEF IInv, ChosenInv, NotOwned
  <2>. QED  BY <1>3, <1>4, <2>2
<1>6. CASE HandlerOn(h)
  <2>1. \/ auth' = ManualClaim /\ saved' = ManualClaim /\ chosen' = (lit = "on")
        \/ auth' = auth /\ saved' = saved /\ chosen' = chosen
    BY <1>6 DEF HandlerOn, Save, claims
  <2>2. ChosenInv'
    <3>1. CASE auth' = ManualClaim /\ saved' = ManualClaim /\ chosen' = (lit = "on")
      <4>1. auth'.kind = "manual" /\ saved'.kind = "manual"
        BY <3>1 DEF ManualClaim
      <4>. QED  BY <1>1, <3>1, <4>1 DEF ChosenInv, NotOwned
    <3>2. CASE auth' = auth /\ saved' = saved /\ chosen' = chosen
      BY <1>1, <3>2 DEF IInv, ChosenInv, NotOwned
    <3>. QED  BY <2>1, <3>1, <3>2
  <2>. QED  BY <1>3, <1>4, <2>2
<1>. QED  BY <1>5, <1>6

LEMMA UserBeginsOwn ==
    ASSUME IInv, NEW st \in States, UserBegins(st)
    PROVE  ChosenInv' /\ UserInv' /\ RunInv'
<1>. DEFINE claim == IF st = "on" THEN ManualClaim ELSE Nothing
<1>1. run' = run /\ lit' = lit /\ rev' = rev
  BY DEF UserBegins, world
<1>2. user = Nothing /\ \A q \in Runs : run[q].pc \notin Locked
  BY AloneWithLock DEF IInv, UserBegins
<1>3. RunInv'
  BY <1>1, <1>2, SameRunInv DEF IInv, Harmless
<1>4. \/ /\ auth' = claim /\ saved' = claim
         /\ user' = [to |-> st, before |-> auth, chosen |-> chosen]
         /\ chosen' = (chosen \/ (st = "on" /\ lit = "on"))
      \/ auth' = auth /\ saved' = saved /\ user' = user /\ chosen' = chosen
  BY DEF UserBegins, Save, claims
<1>5. ChosenInv /\ chosen \in BOOLEAN
  BY DEF IInv, TypeOK
<1>6. ChosenInv'
  <2>1. CASE /\ auth' = claim /\ saved' = claim
             /\ chosen' = (chosen \/ (st = "on" /\ lit = "on"))
    <3>1. claim = Nothing \/ claim.kind = "manual"
      BY DEF ManualClaim
    <3>2. chosen' => lit = "on"
      BY <1>5, <2>1 DEF ChosenInv
    <3>. QED  BY <1>1, <2>1, <3>1, <3>2 DEF ChosenInv, NotOwned
  <2>2. CASE auth' = auth /\ saved' = saved /\ chosen' = chosen
    BY <1>1, <1>5, <2>2 DEF ChosenInv, NotOwned
  <2>. QED  BY <1>4, <2>1, <2>2
<1>7. UserInv'
  <2>1. CASE user' = user
    BY <1>2, <2>1 DEF UserInv
  <2>2. CASE /\ auth' = claim /\ saved' = claim
             /\ user' = [to |-> st, before |-> auth, chosen |-> chosen]
    <3>1. user'.to = st /\ user'.before = auth /\ user'.chosen = chosen
      BY <2>2
    <3>2. claim = Nothing \/ claim.kind = "manual"
      BY DEF ManualClaim
    <3>3. chosen => NotOwned(auth)
      BY <1>5 DEF ChosenInv
    <3>4. chosen => auth = Nothing \/ auth.kind = "manual" \/ auth.rev # rev'
      BY <1>1, <3>3 DEF NotOwned
    <3>. QED  BY <2>2, <3>1, <3>2, <3>4 DEF UserInv, NotOwned
  <2>. QED  BY <1>4, <2>1, <2>2
<1>. QED  BY <1>3, <1>6, <1>7

LEMMA UserEndsOwn ==
    ASSUME IInv, UserSends \/ UserFails
    PROVE  ChosenInv' /\ UserInv' /\ RunInv'
<1>1. run' = run /\ user' = Nothing
  BY DEF UserSends, UserFails
<1>2. \A q \in Runs : run[q].pc \notin Locked
  BY AloneWithLock DEF IInv, LockInv, UserSends, UserFails
<1>3. RunInv'
  BY <1>1, <1>2, SameRunInv DEF IInv, Harmless
<1>4. UserInv'
  BY <1>1 DEF UserInv
<1>5. CASE UserSends
  <2>1. /\ auth' = auth /\ saved' = saved /\ chosen' = (user.to = "on")
        /\ lit' = user.to
    BY <1>5 DEF UserSends, claims, world
  <2>2. chosen' => /\ auth = Nothing \/ auth.kind = "manual"
                   /\ saved = Nothing \/ saved.kind = "manual"
    BY <1>5, <2>1 DEF IInv, UserInv, UserSends
  <2>3. ChosenInv'
    BY <2>1, <2>2 DEF ChosenInv, NotOwned
  <2>. QED  BY <1>3, <1>4, <2>3
<1>6. CASE UserFails
  <2>1. lit' = lit /\ rev' = rev /\ user # Nothing
    BY <1>6 DEF UserFails, world
  <2>2. \/ /\ auth' = user.before /\ saved' \in {saved, user.before}
           /\ chosen' = (chosen /\ user.chosen)
        \/ auth' = auth /\ saved' = saved /\ chosen' = chosen
    BY <1>6 DEF UserFails, Save, SaveRaises, claims
  <2>3. ChosenInv'
    BY <2>1, <2>2 DEF IInv, ChosenInv, UserInv, NotOwned
  <2>. QED  BY <1>3, <1>4, <2>3
<1>. QED  BY <1>5, <1>6

LEMMA ReleaseManualOwn ==
    ASSUME IInv, ReleaseManual
    PROVE  ChosenInv' /\ UserInv' /\ RunInv'
<1>1. run' = run /\ user' = user /\ ~chosen'
  BY DEF ReleaseManual
<1>2. user = Nothing
  BY AloneWithLock DEF IInv, ReleaseManual
<1>3. RunInv'
  BY <1>1, SameRunInv DEF IInv, Harmless
<1>. QED  BY <1>1, <1>2, <1>3 DEF ChosenInv, UserInv

\* A step of a run that claims nothing for automation, and nothing for a person.
LEMMA QuietOwn ==
    ASSUME IInv, NEW r \in Runs, NEW pc, Moves(r, pc), RunOK(r)',
           UNCHANGED <<claims, world, user, chosen>>
    PROVE  ChosenInv' /\ UserInv' /\ RunInv'
<1>1. /\ auth' = auth /\ saved' = saved /\ rev' = rev /\ lit' = lit
      /\ user' = user /\ chosen' = chosen
  BY DEF claims, world
<1>2. RunInv'
  BY <1>1, MovesRunInv DEF IInv, Manual
<1>. QED  BY <1>1, <1>2 DEF IInv, ChosenInv, UserInv, NotOwned

LEMMA PlanOwn ==
    ASSUME IInv, NEW r \in Runs, Plan(r)
    PROVE  ChosenInv' /\ UserInv' /\ RunInv'
<1>1. /\ saved' = saved /\ rev' = rev /\ lit' = lit /\ user' = user /\ chosen' = chosen
      /\ auth' = IF lit = "off" /\ Manual THEN Nothing ELSE auth
  BY DEF Plan, world
<1>2. chosen => auth' = auth
  BY <1>1 DEF IInv, ChosenInv
<1>3. ChosenInv'
  BY <1>1, <1>2 DEF IInv, ChosenInv, NotOwned
<1>4. UserInv'
  BY <1>1, <1>2 DEF IInv, UserInv, NotOwned
<1>5. Moves(r, "planned") /\ run'[r].lit = lit /\ run'[r].claim = auth'
  BY DEF IInv, TypeOK, Plan, Moves
<1>6. RunOK(r)'
  BY <1>1, <1>5 DEF RunOK, Moves, Manual
<1>7. chosen' => chosen /\ (Manual => Manual')
  BY <1>1, <1>2 DEF Manual
<1>8. RunInv'
  BY <1>5, <1>6, <1>7, MovesRunInv DEF IInv
<1>. QED  BY <1>3, <1>4, <1>8

\* Steps that take a run to a place where it acts on nothing it knows.
LEMMA CalmOwn ==
    ASSUME IInv, NEW r \in Runs,
           \/ Supersede(r) \/ AcquireOn(r) \/ Arm(r) \/ AcquireOff(r) \/ CancelRun(r)
    PROVE  ChosenInv' /\ UserInv' /\ RunInv'
<1>0. TypeOK /\ RunOK(r)
  BY DEF IInv, RunInv
<1>1. UNCHANGED <<claims, world, user, chosen>>
  BY DEF Supersede, AcquireOn, Arm, AcquireOff, CancelRun
<1>2. \E pc \in {"guarded", "lock_on", "claim_on", "lock_off", "check_off", "idle"} :
        /\ Moves(r, pc)
        /\ \/ run'[r].lit = run[r].lit /\ run'[r].claim = run[r].claim
           \/ run'[r].claim = Nothing
  <2>1. CASE Supersede(r)
    BY <1>0, <2>1, StepMoves, StepOnMoves DEF Supersede
  <2>2. CASE AcquireOn(r)
    BY <1>0, <2>2, StepMoves DEF AcquireOn
  <2>3. CASE Arm(r)
    <3>1. CASE run' = [run EXCEPT ![r].pc = "lock_off", ![r].gen = gens + 1]
      BY <1>0, <3>1 DEF Moves, TypeOK, RunStates
    <3>2. CASE Step(r, "lock_off") \/ Ends(r)
      BY <1>0, <3>2, StepMoves, EndsMoves
    <3>. QED  BY <2>3, <3>1, <3>2 DEF Arm
  <2>4. CASE AcquireOff(r)
    BY <1>0, <2>4, StepMoves DEF AcquireOff
  <2>5. CASE CancelRun(r)
    BY <1>0, <2>5, EndsMoves DEF CancelRun
  <2>. QED  BY <2>1, <2>2, <2>3, <2>4, <2>5
<1>3. RunOK(r)'
  BY <1>0, <1>2 DEF RunOK, Moves
<1>. QED  BY <1>1, <1>2, <1>3, QuietOwn

LEMMA GuardOwn ==
    ASSUME IInv, NEW r \in Runs, Guard(r)
    PROVE  ChosenInv' /\ UserInv' /\ RunInv'
<1>1. /\ auth' = ManualClaim /\ saved' \in {saved, ManualClaim}
      /\ rev' = rev /\ lit' = lit /\ user' = user /\ chosen' = chosen
  BY DEF Guard, Save, SaveRaises, world
<1>2. user = Nothing
  BY AloneWithLock DEF IInv, Guard
<1>3. ChosenInv'
  BY <1>1 DEF IInv, ChosenInv, NotOwned, ManualClaim
<1>4. Moves(r, "idle") /\ run'[r].claim = Nothing
  BY EndsMoves DEF IInv, Guard
<1>5. RunOK(r)'
  BY <1>4 DEF RunOK, Moves
<1>6. Manual'
  BY <1>1, ManualClaimType, Sorts DEF IInv, TypeOK, Manual, ManualClaim
<1>7. RunInv'
  BY <1>1, <1>4, <1>5, <1>6, MovesRunInv DEF IInv
<1>. QED  BY <1>1, <1>2, <1>3, <1>7 DEF UserInv

LEMMA ClaimOnOwn ==
    ASSUME IInv, NEW r \in Runs, ClaimOn(r)
    PROVE  ChosenInv' /\ UserInv' /\ RunInv'
<1>0. TypeOK /\ RunOK(r) /\ ChosenInv /\ lit \in States
  BY DEF IInv, RunInv, TypeOK
<1>1. rev' = rev /\ lit' = lit /\ user' = user /\ chosen' = chosen
  BY DEF ClaimOn, world
<1>2. user = Nothing /\ \A q \in Runs \ {r} : run[q].pc \notin Locked
  BY AloneWithLock DEF IInv, ClaimOn, Locked
<1>3. auth' \in {auth, ManualClaim, Nothing} /\ saved' \in {saved, ManualClaim, Nothing}
  BY DEF ClaimOn, Save, SaveRaises, claims
<1>4. ChosenInv'
  BY <1>0, <1>1, <1>3 DEF ChosenInv, NotOwned, ManualClaim
<1>5. UserInv'
  BY <1>1, <1>2 DEF UserInv
<1>6. \/ Step(r, "note_on") /\ Manual'
      \/ Step(r, "send_on") /\ (run[r].lit = "off" => ~chosen)
      \/ Ends(r)
  <2>1. CASE Manual /\ lit = "on"
    BY <2>1 DEF ClaimOn, Manual, claims
  <2>2. CASE ~(Manual /\ lit = "on") /\ Unexpected(r)
    <3>1. Ends(r) \/ (Step(r, "note_on") /\ auth' = ManualClaim)
      BY <2>2 DEF ClaimOn, Save
    <3>2. auth' = ManualClaim => Manual'
      BY <1>0, ManualClaimType, Sorts DEF TypeOK, Manual, ManualClaim
    <3>. QED  BY <3>1, <3>2
  <2>3. CASE ~(Manual /\ lit = "on") /\ ~Unexpected(r)
    <3>1. Ends(r) \/ Step(r, "send_on")
      BY <2>3 DEF ClaimOn
    <3>2. run[r].lit = "off" => lit = "off" \/ Owned
      BY <1>0, <2>3 DEF Unexpected, States
    <3>3. Owned => ~chosen
      BY <1>0 DEF ChosenInv, Owned, NotOwned
    <3>4. lit = "off" => ~chosen
      BY <1>0 DEF ChosenInv
    <3>. QED  BY <3>1, <3>2, <3>3, <3>4
  <2>. QED  BY <2>1, <2>2, <2>3
<1>7. \E pc : Moves(r, pc) /\ RunOK(r)'
  <2>1. CASE Step(r, "note_on") /\ Manual'
    BY <1>0, <2>1, StepMoves DEF RunOK, Moves
  <2>2. CASE Step(r, "send_on") /\ (run[r].lit = "off" => ~chosen)
    BY <1>0, <1>1, <2>2, StepMoves DEF RunOK, Moves
  <2>3. CASE Ends(r)
    BY <1>0, <2>3, EndsMoves DEF RunOK, Moves
  <2>. QED  BY <1>6, <2>1, <2>2, <2>3
<1>8. RunInv'
  BY <1>2, <1>7, MovesRunInv DEF IInv
<1>. QED  BY <1>4, <1>5, <1>8

LEMMA SendOnOwn ==
    ASSUME IInv, NEW r \in Runs, SendOn(r)
    PROVE  ChosenInv' /\ UserInv' /\ RunInv'
<1>0. TypeOK /\ RunOK(r) /\ ChosenInv
  BY DEF IInv, RunInv
<1>1. /\ auth' = auth /\ saved' = saved /\ user' = user /\ chosen' = chosen
      /\ (lit' = lit /\ rev' = rev) \/ ~chosen
  BY <1>0 DEF SendOn, claims, world, ChosenInv
<1>2. user = Nothing /\ \A q \in Runs \ {r} : run[q].pc \notin Locked
  BY AloneWithLock DEF IInv, SendOn, Locked
<1>3. ChosenInv'
  BY <1>0, <1>1 DEF ChosenInv, NotOwned
<1>4. UserInv'
  BY <1>1, <1>2 DEF UserInv
<1>5. \E receipt : StepWith(r, "note_on", receipt)
  BY DEF SendOn
<1>6. run[r].lit = "off" => ~chosen
  BY <1>0 DEF RunOK, SendOn
<1>7. Moves(r, "note_on") /\ RunOK(r)'
  BY <1>0, <1>1, <1>5, <1>6, StepWithMoves DEF RunOK, Moves
<1>8. RunInv'
  BY <1>2, <1>7, MovesRunInv DEF IInv
<1>. QED  BY <1>3, <1>4, <1>8

LEMMA NoteOnOwn ==
    ASSUME IInv, NEW r \in Runs, NoteOn(r)
    PROVE  ChosenInv' /\ UserInv' /\ RunInv'
<1>a. PICK ours \in BOOLEAN :
        LET left  == IF run[r].lit = "off" /\ auth = run[r].claim THEN Nothing ELSE auth
            claim == IF ours /\ (left = Nothing \/ left.kind # "manual")
                       THEN AutomationClaim ELSE left
        IN  /\ ours => run[r].lit = "off" /\ lit = "on"
            /\ Save(claim) \/ SaveRaises(claim)
            /\ \/ Ends(r)
               \/ StepOn(r, "note_delay", IF ours THEN "confirmed" ELSE "none")
  BY NoteOnParts
<1>. DEFINE left  == IF run[r].lit = "off" /\ auth = run[r].claim THEN Nothing ELSE auth
            claim == IF ours /\ (left = Nothing \/ left.kind # "manual")
                       THEN AutomationClaim ELSE left
<1>0. TypeOK /\ RunOK(r) /\ ChosenInv
  BY DEF IInv, RunInv
<1>1. rev' = rev /\ lit' = lit /\ user' = user /\ chosen' = chosen
  BY DEF NoteOn, world
<1>2. user = Nothing /\ \A q \in Runs \ {r} : run[q].pc \notin Locked
  BY AloneWithLock DEF IInv, NoteOn, Locked
<1>3. /\ auth' = claim /\ saved' \in {saved, claim}
      /\ Ends(r) \/ \E receipt : StepOn(r, "note_delay", receipt)
  BY <1>a DEF Save, SaveRaises
\* Automation does not take what a person has claimed: then the claim is manual, and
\* it is newer than the run's plan.
<1>4. chosen => NotOwned(claim)
  <2>1. ASSUME chosen, run[r].lit = "off"  PROVE claim = auth
    <3>1. Manual
      BY <1>0, <2>1 DEF RunOK, NoteOn
    <3>2. auth # run[r].claim
      BY <1>0, <2>1, <3>1 DEF RunOK, Manual
    <3>. QED  BY <3>1, <3>2 DEF Manual
  <2>2. run[r].lit # "off" => claim = auth
    BY <1>a
  <2>. QED  BY <1>0, <2>1, <2>2 DEF ChosenInv
<1>. HIDE DEF claim
<1>5. ChosenInv'
  BY <1>0, <1>1, <1>3, <1>4 DEF ChosenInv, NotOwned
<1>6. UserInv'
  BY <1>1, <1>2 DEF UserInv
<1>7. \E pc : Moves(r, pc) /\ RunOK(r)'
  BY <1>0, <1>3, StepOnMoves, EndsMoves DEF RunOK, Moves
<1>8. RunInv'
  BY <1>2, <1>7, MovesRunInv DEF IInv
<1>. QED  BY <1>5, <1>6, <1>8

\* Automation's claim to the light as it is ends a person's, unless that is on record.
LEMMA NoteDelayOwn ==
    ASSUME IInv, NEW r \in Runs, NoteDelay(r)
    PROVE  ChosenInv' /\ UserInv' /\ RunInv'
<1>0. TypeOK /\ ChosenInv
  BY DEF IInv
<1>1. /\ rev' = rev /\ lit' = lit /\ user' = user
      /\ chosen' = (chosen /\ (run[r].receipt = "confirmed" => Manual))
      /\ auth' = Retaken(r) /\ saved' \in {saved, Retaken(r)}
  BY DEF NoteDelay, Save, SaveRaises, world
<1>2. user = Nothing /\ \A q \in Runs : run[q].pc \notin Locked
  BY AloneWithLock DEF IInv, NoteDelay
<1>3. chosen' => chosen /\ Retaken(r) = auth
  BY <1>1 DEF Retaken
<1>4. ChosenInv'
  BY <1>0, <1>1, <1>3 DEF ChosenInv, NotOwned
<1>5. \E pc : Moves(r, pc) /\ RunOK(r)'
  <2>1. RunOK(r)
    BY DEF IInv, RunInv
  <2>2. CASE Step(r, "arm")
    BY <1>0, <2>1, <2>2, StepMoves DEF RunOK, Moves
  <2>3. CASE Ends(r)
    BY <1>0, <2>3, EndsMoves DEF RunOK, Moves
  <2>. QED  BY <2>2, <2>3 DEF NoteDelay
<1>6. RunInv'
  BY <1>2, <1>5, MovesRunInv DEF IInv
<1>. QED  BY <1>1, <1>2, <1>4, <1>6 DEF UserInv

LEMMA CheckOffOwn ==
    ASSUME IInv, NEW r \in Runs, CheckOff(r)
    PROVE  ChosenInv' /\ UserInv' /\ RunInv'
<1>0. TypeOK /\ RunOK(r) /\ ChosenInv
  BY DEF IInv, RunInv
<1>1. /\ rev' = rev /\ lit' = lit /\ user' = user /\ chosen' = chosen
      /\ auth' = auth /\ saved' \in {saved, auth}
  BY DEF CheckOff, Save, SaveRaises, claims, world
<1>2. user = Nothing /\ \A q \in Runs \ {r} : run[q].pc \notin Locked
  BY AloneWithLock DEF IInv, CheckOff, Locked
<1>3. ChosenInv'
  BY <1>0, <1>1 DEF ChosenInv, NotOwned
<1>4. Owned => ~chosen
  BY <1>0 DEF ChosenInv, Owned, NotOwned
<1>5. Ends(r) \/ (Step(r, "send_off") /\ Owned)
  BY DEF CheckOff
<1>6. \E pc : Moves(r, pc) /\ RunOK(r)'
  <2>1. CASE Ends(r)
    BY <1>0, <2>1, EndsMoves DEF RunOK, Moves
  <2>2. CASE Step(r, "send_off") /\ Owned
    BY <1>0, <1>1, <1>4, <2>2, StepMoves DEF RunOK, Moves
  <2>. QED  BY <1>5, <2>1, <2>2
<1>7. RunInv'
  BY <1>2, <1>6, MovesRunInv DEF IInv
<1>. QED  BY <1>1, <1>2, <1>3, <1>7 DEF UserInv

LEMMA SendOffOwn ==
    ASSUME IInv, NEW r \in Runs, SendOff(r)
    PROVE  ChosenInv' /\ UserInv' /\ RunInv'
<1>0. TypeOK /\ RunOK(r) /\ ~chosen
  BY DEF IInv, RunInv, RunOK, SendOff
<1>1. user' = user /\ ~chosen'
  BY <1>0 DEF SendOff, SwitchedOff
<1>2. user = Nothing
  BY AloneWithLock DEF IInv, SendOff, Locked
<1>3. (\E receipt : StepWith(r, "note_off", receipt)) \/ Step(r, "failed_off")
  BY DEF SendOff
<1>4. \E pc : Moves(r, pc) /\ RunOK(r)'
  BY <1>0, <1>1, <1>3, StepMoves, StepWithMoves DEF RunOK, Moves
<1>5. RunInv'
  BY <1>1, <1>4, MovesRunInv DEF IInv
<1>. QED  BY <1>1, <1>2, <1>5 DEF ChosenInv, UserInv

LEMMA NoteOffOwn ==
    ASSUME IInv, NEW r \in Runs, NoteOff(r)
    PROVE  ChosenInv' /\ UserInv' /\ RunInv'
<1>0. TypeOK /\ ChosenInv
  BY DEF IInv
<1>1. /\ rev' = rev /\ lit' = lit /\ user' = user /\ chosen' = chosen
      /\ auth' \in {auth, Nothing} /\ saved' \in {saved, auth, Nothing}
  BY DEF NoteOff, Save, SaveRaises, world
<1>2. user = Nothing /\ \A q \in Runs \ {r} : run[q].pc \notin Locked
  BY AloneWithLock DEF IInv, NoteOff, Locked
<1>3. ChosenInv'
  BY <1>0, <1>1 DEF ChosenInv, NotOwned
<1>4. Moves(r, "idle") /\ run'[r].claim = Nothing
  BY <1>0, EndsMoves DEF NoteOff
<1>5. RunOK(r)'
  BY <1>4 DEF RunOK, Moves
<1>6. RunInv'
  BY <1>2, <1>4, <1>5, MovesRunInv DEF IInv
<1>. QED  BY <1>1, <1>2, <1>3, <1>6 DEF UserInv

LEMMA FailedOffOwn ==
    ASSUME IInv, NEW r \in Runs, FailedOff(r)
    PROVE  ChosenInv' /\ UserInv' /\ RunInv'
<1>0. TypeOK /\ ~chosen
  BY DEF IInv, RunInv, RunOK, FailedOff
<1>1. user' = user /\ ~chosen'
  BY <1>0 DEF FailedOff
<1>2. user = Nothing
  BY AloneWithLock DEF IInv, FailedOff, Locked
<1>3. Moves(r, "idle") /\ run'[r].claim = Nothing
  BY <1>0, EndsMoves DEF FailedOff
<1>4. RunOK(r)'
  BY <1>3 DEF RunOK, Moves
<1>5. RunInv'
  BY <1>1, <1>3, <1>4, MovesRunInv DEF IInv
<1>. QED  BY <1>1, <1>2, <1>5 DEF ChosenInv, UserInv

LEMMA ReconcilerOwn ==
    ASSUME IInv, Wake \/ ReconcileLocks \/ ReconcileSends \/ ReconcileConfirms
    PROVE  ChosenInv' /\ UserInv' /\ RunInv'
<1>1. /\ auth' = auth /\ saved' = saved /\ user' = user /\ run' = run
      /\ (lit' = lit /\ rev' = rev /\ chosen' = chosen) \/ ~chosen'
  BY DEF Wake, ReconcileLocks, ReconcileSends, ReconcileConfirms, Refused, SwitchedOff,
     claims, world
<1>2. RunInv'
  BY <1>1, SameRunInv DEF IInv, Harmless, Manual
<1>. QED  BY <1>1, <1>2 DEF IInv, ChosenInv, UserInv, NotOwned

LEMMA StopOwn ==
    ASSUME IInv, Stop
    PROVE  ChosenInv' /\ UserInv' /\ RunInv'
<1>1. /\ auth' = auth /\ saved' = saved /\ lit' = lit /\ rev' = rev /\ chosen' = chosen
      /\ user' = Nothing /\ run' = [q \in Runs |-> Idle]
  BY DEF Stop, claims, world
<1>2. RunInv'
  BY <1>1 DEF RunInv, RunOK, Idle
<1>. QED  BY <1>1, <1>2 DEF IInv, ChosenInv, UserInv, NotOwned

LEMMA StartOwn ==
    ASSUME IInv, Start
    PROVE  ChosenInv' /\ UserInv' /\ RunInv'
<1>1. /\ auth' = saved /\ saved' = saved /\ lit' = lit /\ rev' = rev /\ chosen' = chosen
      /\ user' = user /\ run' = run
  BY DEF Start, world
<1>2. \A q \in Runs : run[q].pc \notin Locked
  BY DEF IInv, DownInv, Start, Locked
<1>3. RunInv'
  BY <1>1, <1>2, SameRunInv DEF IInv, Harmless
<1>. QED  BY <1>1, <1>3 DEF IInv, ChosenInv, UserInv, NotOwned

LEMMA IInvInit == Init => IInv
<1>. SUFFICES ASSUME Init  PROVE IInv
  OBVIOUS
<1>1. ChosenInv /\ UserInv
  BY DEF Init, ChosenInv, UserInv
<1>2. RunInv /\ DownInv
  BY DEF Init, RunInv, RunOK, DownInv, Idle
<1>. QED  BY <1>1, <1>2, TypeInit, LockInit DEF IInv

LEMMA IInvNext == IInv /\ [Next]_vars => IInv'
<1>. SUFFICES ASSUME IInv, [Next]_vars  PROVE IInv'
  OBVIOUS
<1>1. TypeOK' /\ LockInv' /\ DownInv'
  BY TypeNext, LockNext, DownNext DEF IInv
<1>2. ChosenInv' /\ UserInv' /\ RunInv'
  <2>1. CASE UNCHANGED vars
    <3>1. /\ auth' = auth /\ saved' = saved /\ lit' = lit /\ rev' = rev
          /\ chosen' = chosen /\ user' = user /\ run' = run
      BY <2>1 DEF vars, claims, world
    <3>2. RunInv'
      BY <3>1, SameRunInv DEF IInv, Harmless, Manual
    <3>. QED  BY <3>1, <3>2 DEF IInv, ChosenInv, UserInv, NotOwned
  <2>2. CASE Next
    BY <2>2, SwitchOwn, HandlersOwn, UserBeginsOwn, UserEndsOwn, ReleaseManualOwn,
       PlanOwn, CalmOwn, GuardOwn, ClaimOnOwn, SendOnOwn, NoteOnOwn, NoteDelayOwn,
       CheckOffOwn, SendOffOwn, NoteOffOwn, FailedOffOwn, ReconcilerOwn, StopOwn, StartOwn DEF Next
  <2>. QED  BY <2>1, <2>2
<1>. QED  BY <1>1, <1>2 DEF IInv

\* Automation never switches off a light that is on as a person has claimed it: for any
\* number of runs and restarts, whatever saves fail, unless it owned the light anew at
\* the delay of a run when the claim itself was gone.
THEOREM ManualOn == Spec => ManualOnHolds
<1>1. ASSUME IInv, [Next]_vars
      PROVE  [(\E r \in Runs : SendOff(r)) \/ ReconcileSends => lit' = lit \/ ~chosen]_vars
  <2>1. ASSUME NEW r \in Runs, SendOff(r)  PROVE ~chosen
    BY <1>1, <2>1 DEF IInv, RunInv, RunOK, SendOff
  <2>2. ASSUME ReconcileSends  PROVE lit' = lit \/ ~chosen
    <3>1. CASE StillOwned
      BY <1>1, <3>1 DEF StillOwned, Owned, IInv, ChosenInv, NotOwned
    <3>2. CASE ~StillOwned
      BY <2>2, <3>2 DEF ReconcileSends, Refused, world
    <3>. QED  BY <3>1, <3>2
  <2>. QED  BY <2>1, <2>2
<1>. QED  BY <1>1, IInvInit, IInvNext, PTL DEF Spec, ManualOnHolds
===============================================================================
