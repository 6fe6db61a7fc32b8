---------------------------- MODULE DPWavesProofs ----------------------------
(***************************************************************************)
(* Proofs about DPWaves for any number of engines, front ends, requests    *)
(* and pauses: the engines agree on their wave, an answered pause stays    *)
(* quiet, and no wake-up is lost while nobody pauses.                      *)
(***************************************************************************)
EXTENDS DPWaves, TLAPS

-----------------------------------------------------------------------------
(* The invariant.                                                          *)

States == {"poll", "forward", "sync", "synced", "resume"}
Adds == [type : {"add"}, req : Requests, wave : Nat]
Inputs == Adds \cup [type : {"abort"}, req : Requests]
               \cup [type : {"pause"}, mode : Modes] \cup [type : {"resume"}]

EngineTypes ==
    /\ pc \in [Engines -> States] /\ wave \in [Engines -> Nat]
    /\ running \in [Engines -> BOOLEAN] /\ DOMAIN step = Engines
    /\ paused \in [Engines -> {"no", "new", "all"}]
    /\ pending \in [Engines -> BOOLEAN] /\ ignore \in [Engines -> BOOLEAN]
    /\ DOMAIN waitQ = Engines /\ DOMAIN runQ = Engines
    /\ reduced \in [unfinished : BOOLEAN, agreed : BOOLEAN]
ChannelTypes ==
    /\ toEngine \in [Fronts \X Engines -> Seq(Inputs)]
    /\ starts \in [Engines -> Seq([wave : Nat, exclude : Engines \cup {-1}])]
    /\ toCoord \in [Engines -> Seq([type : {"start", "complete"}, wave : Nat])]
    /\ wakes \in [Fronts -> Seq(Nat)]
OtherTypes ==
    /\ config \in Configs
    /\ cWave \in Nat /\ cRunning \in BOOLEAN
    /\ fWave \in [Fronts -> Nat] /\ fRunning \in [Fronts -> BOOLEAN]
    /\ first \in [Fronts -> Nat]
    /\ news \in [Fronts -> Seq([wave : Nat, running : BOOLEAN])]
    /\ pauses \in Nat /\ calls \subseteq Engines
Types == EngineTypes /\ ChannelTypes /\ OtherTypes

\* The wave is over, and e has still to note it.
Over(e) == pc[e] = "synced" /\ ~reduced.unfinished
\* The wave e is in, as the others see it.
Current(e) == wave[e] + (IF Over(e) THEN 1 ELSE 0)
Now == Current(0)

\* All engines are in one wave, which nobody is ahead of.
WavesAgree ==
    /\ \A e \in Engines : Current(e) = Now
    /\ cWave <= Now
    /\ \A f \in Fronts : /\ fWave[f] <= cWave
                         /\ \A n \in ToSet(news[f]) : n.wave <= cWave
    /\ \A f \in Fronts, e \in Engines : \A m \in ToSet(toEngine[f, e]) :
          m.type = "add" => m.wave <= cWave
    /\ \A e \in Engines :
          /\ \A m \in ToSet(starts[e]) : m.wave <= cWave
          /\ \A m \in ToSet(toCoord[e]) : IF m.type = "start" THEN m.wave <= Now
                                                            ELSE m.wave < Now
StepsAgree ==
    /\ \A e \in Engines : pc[e] \in {"sync", "synced"} => step[e] = 0
    /\ ~Replicated => \A d, e \in Engines : step[d] = step[e]

IsCall(m) == m.type \in {"pause", "resume"}
NoCall(s) == \A m \in ToSet(s) : ~IsCall(m)
OneCall(s, type) ==
    \E i \in DOMAIN s : /\ s[i].type = type
                       /\ \A j \in DOMAIN s : IsCall(s[j]) => j = i
\* No call is on its way to e.
Uncalled(e) == \A f \in Fronts : NoCall(toEngine[f, e])
\* One call of that type is on its way to e, and no other.
Called(e, type) ==
    \E f \in Fronts : /\ OneCall(toEngine[f, e], type)
                      /\ \A g \in Fronts \ {f} : NoCall(toEngine[g, e])

Odd == pauses % 2 = 1
Quiet(e) == pc[e] = "poll" /\ ~running[e] /\ Unfinished(e) = {}

\* A paused engine runs until all agree on the pause, and then takes no start.
Settling(e) ==
    /\ paused[e] # "no" => \/ pending[e] /\ running[e]
                           \/ ~pending[e] /\ ignore[e]
    /\ paused[e] = "no" => ~pending[e] /\ ~ignore[e]
    /\ pc[e] = "synced" =>
          /\ pending[e] => reduced.agreed \/ reduced.unfinished
          /\ reduced.agreed => pending[e]
    /\ pc[e] = "resume" => paused[e] = "no" /\ ~Odd /\ calls # {}
\* Where e is in a pause, and in the resume that follows it.
Phase(e) ==
    IF Odd
    THEN \/ e \in calls /\ paused[e] = "no" /\ Called(e, "pause")
         \/ paused[e] # "no" /\ Uncalled(e) /\ (e \in calls \/ Quiet(e))
    ELSE IF calls # {}
    THEN \/ paused[e] # "no" /\ Called(e, "resume") /\ Quiet(e)
         \/ paused[e] = "no" /\ Uncalled(e) /\ pc[e] = "resume"
    ELSE paused[e] = "no" /\ Uncalled(e)
PauseInv == \A e \in Engines : Settling(e) /\ Phase(e)

\* The coordinator has started the wave, and somebody will have it do so.
Started == cWave = Now /\ cRunning
Woken == \/ Started
         \/ \E e \in Engines : \E m \in ToSet(toCoord[e]) : m.type = "start" /\ m.wave = Now
         \/ cWave = Now /\ \E f \in Fronts : first[f] > 0 \/ wakes[f] # <<>>

\* e takes part in the wave, or a start that it will take is on its way.
InWave(e) == ~Over(e) /\ (pc[e] # "poll" \/ running[e])
Told(e) == \E m \in ToSet(starts[e]) : m.wave = Now /\ m.exclude # e

\* Nobody has paused the engines. An engine is awake only in a wave that is
\* started or will be, all are told of a wave that is started, and nobody
\* takes a wave for started that is not.
EnginesWake ==
    \A e \in Engines :
        /\ Over(e) => Unfinished(e) = {}
        /\ ~Over(e) /\ Awake(e) => Woken
        /\ Started => InWave(e) \/ Told(e)
StartsMatch ==
    \A e \in Engines :
        /\ \A m \in ToSet(toCoord[e]) : m.type = "start" /\ m.wave = Now => InWave(e)
        /\ \A m \in ToSet(starts[e]) : m.wave = Now => Started
FrontsKnow ==
    \A f \in Fronts :
        /\ fRunning[f] /\ fWave[f] = Now => Started \/ wakes[f] # <<>>
        /\ \A n \in ToSet(news[f]) : n.running /\ n.wave = Now => Started
        /\ \A e \in Engines : \A m \in ToSet(toEngine[f, e]) :
              m.type = "add" /\ m.wave = Now => Woken
WakeInv == calls = {} /\ EnginesWake /\ StartsMatch /\ FrontsKnow

Inv == Types /\ WavesAgree /\ StepsAgree /\ PauseInv /\ (pauses = 0 => WakeInv)

-----------------------------------------------------------------------------
(* Deployments and queues.                                                 *)

LEMMA ConfigFacts ==
    ASSUME config \in Configs
    PROVE  /\ NumEngines \in Nat /\ NumEngines >= 2 /\ 0 \in Engines /\ -1 \notin Engines
           /\ Engines \subseteq Nat /\ Pauser \in Fronts
           /\ \A r \in Requests : FrontOf[r] \in Fronts /\ Targets[r] \subseteq Engines
<1>1. /\ config.numEngines \in Nat \ {0, 1}
      /\ config.front \in Seq(ToSet(config.front)) /\ config.front # <<>>
      /\ \A r \in DOMAIN config.front : config.targets[r] \subseteq 0..(config.numEngines - 1)
    BY WavesAssumption
<1>2. 1 \in DOMAIN config.front
    BY <1>1
<1>3. \A r \in DOMAIN config.front : config.front[r] \in ToSet(config.front)
    BY DEF ToSet
<1> QED BY <1>1, <1>2, <1>3
        DEF NumEngines, Engines, Pauser, Fronts, FrontOf, Requests, Targets

\* The deployment never changes.
Same ==
    /\ config' = config /\ Engines' = Engines /\ Fronts' = Fronts /\ Requests' = Requests
    /\ Modes' = Modes /\ Inputs' = Inputs /\ Replicated' = Replicated
    /\ Pauser' = Pauser

LEMMA ConfigKept ==
    ASSUME config' = config
    PROVE  Same
BY DEF Same, Engines, NumEngines, Fronts, FrontOf, Requests, Modes, Inputs, Adds,
       Replicated, Pauser

LEMMA NextSame ==
    ASSUME [Next]_vars
    PROVE  Same
<1>1. config' = config
    <2>1. CASE UNCHANGED vars
        BY <2>1 DEF vars
    <2>2. CASE \E f \in Fronts : FrontStep(f)
        BY <2>2 DEF FrontStep, SendFirst, ReadNews
    <2>3. CASE CoordStep
        BY <2>3 DEF CoordStep, CoordWake, CoordComplete, CoordStart
    <2>4. CASE \E e \in Engines : EngineStep(e)
        <3>1. CASE \E e \in Engines : HandleStart(e) \/ Begin(e) \/ EndLoop(e) \/ PauseDone(e)
            BY <3>1 DEF HandleStart, Begin, EndLoop, PauseDone
        <3>2. CASE \E e \in Engines, f \in Fronts : HandleAdd(f, e) \/ HandleAbort(f, e)
            BY <3>2 DEF HandleAdd, HandleAbort
        <3>3. CASE \E e \in Engines, f \in Fronts : HandlePause(f, e) \/ HandleResume(f, e)
            BY <3>3 DEF HandlePause, HandleResume
        <3> QED BY <2>4, <3>1, <3>2, <3>3 DEF EngineStep, HandleInput
    <2>5. CASE Collective
        <3>1. CASE \E es \in {Engines} \cup {{e} : e \in Engines} : Forward(es)
            BY <3>1 DEF Forward
        <3>2. CASE AllReduce \/ ResumeBarrier
            BY <3>2 DEF AllReduce, ResumeBarrier
        <3> QED BY <2>5, <3>1, <3>2 DEF Collective
    <2>6. CASE ClientStep \/ ResumeGeneration
        BY <2>6 DEF ClientStep, AddRequest, AbortRequest, PauseGeneration, ResumeGeneration
    <2> QED BY <2>1, <2>2, <2>3, <2>4, <2>5, <2>6 DEF Next
<1> QED BY <1>1, ConfigKept

LEMMA AppendAt ==
    ASSUME NEW S, NEW s \in Seq(S), NEW x \in S
    PROVE  /\ Append(s, x) \in Seq(S) /\ Append(s, x) # <<>>
           /\ ToSet(Append(s, x)) = ToSet(s) \cup {x}
           /\ Len(Append(s, x)) = Len(s) + 1 /\ Append(s, x)[Len(s) + 1] = x
           /\ \A i \in 1..Len(s) : Append(s, x)[i] = s[i]
<1> DEFINE t == Append(s, x)
<1>1. /\ t \in Seq(S) /\ t # <<>> /\ Len(t) = Len(s) + 1 /\ t[Len(s) + 1] = x
      /\ Len(s) \in Nat /\ DOMAIN s = 1..Len(s) /\ DOMAIN t = 1..Len(s) + 1
      /\ \A i \in 1..Len(s) : t[i] = s[i]
    OBVIOUS
<1> HIDE DEF t
<1>2. \A i \in 1..Len(s) + 1 : i = Len(s) + 1 \/ i \in 1..Len(s)
    BY <1>1
<1>3. ToSet(t) \subseteq ToSet(s) \cup {x}
    BY <1>1, <1>2 DEF ToSet
<1>4. Len(s) + 1 \in 1..Len(s) + 1 /\ \A i \in 1..Len(s) : i \in 1..Len(s) + 1
    BY <1>1
<1>5. ToSet(s) \cup {x} \subseteq ToSet(t)
    BY <1>1, <1>4 DEF ToSet
<1> QED BY <1>1, <1>3, <1>5 DEF t

LEMMA AppendSet ==
    ASSUME NEW S, NEW s \in Seq(S), NEW x \in S
    PROVE  /\ Append(s, x) \in Seq(S) /\ Append(s, x) # <<>>
           /\ ToSet(Append(s, x)) = ToSet(s) \cup {x}
BY AppendAt

LEMMA TailSet ==
    ASSUME NEW S, NEW s \in Seq(S), s # <<>>
    PROVE  /\ Head(s) \in S /\ Head(s) \in ToSet(s) /\ Tail(s) \in Seq(S)
           /\ ToSet(Tail(s)) \subseteq ToSet(s)
           /\ ToSet(s) \subseteq {Head(s)} \cup ToSet(Tail(s))
           /\ Head(s) = s[1] /\ 1 \in DOMAIN s
           /\ \A i \in DOMAIN Tail(s) : Tail(s)[i] = s[i + 1] /\ i + 1 \in DOMAIN s
           /\ \A i \in DOMAIN s : i = 1 \/ i - 1 \in DOMAIN Tail(s)
<1> DEFINE t == Tail(s)
<1>1. /\ t \in Seq(S) /\ Len(s) \in Nat /\ Len(s) >= 1 /\ Len(t) = Len(s) - 1
      /\ DOMAIN s = 1..Len(s) /\ DOMAIN t = 1..Len(s) - 1
      /\ Head(s) = s[1] /\ \A i \in 1..Len(s) - 1 : t[i] = s[i + 1]
      /\ \A i \in 1..Len(s) : s[i] \in S
    OBVIOUS
<1> HIDE DEF t
<1>2. /\ 1 \in 1..Len(s)
      /\ \A i \in 1..Len(s) - 1 : i + 1 \in 1..Len(s)
      /\ \A i \in 1..Len(s) : i = 1 \/ (i - 1 \in 1..Len(s) - 1 /\ (i - 1) + 1 = i)
    BY <1>1
<1>3. Head(s) \in S /\ Head(s) \in ToSet(s)
    BY <1>1, <1>2 DEF ToSet
<1>4. ASSUME NEW x \in ToSet(t) PROVE x \in ToSet(s)
    <2>1. PICK i \in 1..Len(s) - 1 : x = t[i]
        BY <1>1 DEF ToSet
    <2>2. x = s[i + 1] /\ i + 1 \in DOMAIN s
        BY <1>1, <1>2, <2>1
    <2> QED BY <2>2 DEF ToSet
<1>5. ASSUME NEW x \in ToSet(s) PROVE x \in {Head(s)} \cup ToSet(t)
    <2>1. PICK i \in 1..Len(s) : x = s[i]
        BY <1>1 DEF ToSet
    <2>2. CASE i = 1
        BY <1>1, <2>1, <2>2
    <2>3. CASE i - 1 \in 1..Len(s) - 1 /\ (i - 1) + 1 = i
        <3>1. x = t[i - 1]
            BY <1>1, <2>1, <2>3
        <3> QED BY <1>1, <2>3, <3>1 DEF ToSet
    <2> QED BY <1>2, <2>2, <2>3
<1> QED BY <1>1, <1>2, <1>3, <1>4, <1>5 DEF t

-----------------------------------------------------------------------------
(* Types.                                                                  *)

LEMMA MaxWave ==
    ASSUME NEW a \in Nat, NEW b \in Nat
    PROVE  Max({a, b}) \in Nat /\ Max({a, b}) = IF a >= b THEN a ELSE b
<1>1. \E x \in {a, b} : \A y \in {a, b} : x >= y
    BY SMT
<1>2. Max({a, b}) \in {a, b} /\ \A y \in {a, b} : Max({a, b}) >= y
    BY <1>1 DEF Max
<1> QED BY <1>2

\* A message an engine takes.
LEMMA TakeFacts ==
    ASSUME Types, NEW f \in Fronts, NEW e \in Engines, NEW type, Take(f, e, type)
    PROVE  /\ pc[e] = "poll" /\ Head(toEngine[f, e]).type = type
           /\ Head(toEngine[f, e]) \in Inputs
           /\ Head(toEngine[f, e]) \in ToSet(toEngine[f, e])
           /\ toEngine' \in [Fronts \X Engines -> Seq(Inputs)]
           /\ toEngine'[f, e] = Tail(toEngine[f, e])
           /\ \A g \in Fronts, d \in Engines :
                 /\ <<g, d>> # <<f, e>> => toEngine'[g, d] = toEngine[g, d]
                 /\ ToSet(toEngine'[g, d]) \subseteq ToSet(toEngine[g, d])
<1>1. /\ toEngine \in [Fronts \X Engines -> Seq(Inputs)]
      /\ <<f, e>> \in Fronts \X Engines
    BY DEF Types, ChannelTypes
<1>2. /\ pc[e] = "poll" /\ Head(toEngine[f, e]).type = type
      /\ toEngine[f, e] # <<>>
      /\ toEngine' = [toEngine EXCEPT ![<<f, e>>] = Tail(@)]
    BY DEF Take
<1>3. /\ Head(toEngine[f, e]) \in Inputs /\ Head(toEngine[f, e]) \in ToSet(toEngine[f, e])
      /\ Tail(toEngine[f, e]) \in Seq(Inputs)
      /\ ToSet(Tail(toEngine[f, e])) \subseteq ToSet(toEngine[f, e])
    BY <1>1, <1>2, TailSet
<1>4. /\ toEngine' \in [Fronts \X Engines -> Seq(Inputs)]
      /\ toEngine'[f, e] = Tail(toEngine[f, e])
      /\ \A c \in Fronts \X Engines : c # <<f, e>> => toEngine'[c] = toEngine[c]
    BY <1>1, <1>2, <1>3
<1>5. ASSUME NEW g \in Fronts, NEW d \in Engines
      PROVE  /\ <<g, d>> # <<f, e>> => toEngine'[g, d] = toEngine[g, d]
             /\ ToSet(toEngine'[g, d]) \subseteq ToSet(toEngine[g, d])
    <2>1. CASE <<g, d>> = <<f, e>>
        BY <1>3, <1>4, <2>1
    <2>2. CASE <<g, d>> # <<f, e>>
        BY <1>1, <1>4, <2>2
    <2> QED BY <2>1, <2>2
<1> QED BY <1>2, <1>3, <1>4, <1>5

\* A message put into an engine's input.
LEMMA SendFacts ==
    ASSUME Types, NEW f \in Fronts, NEW e \in Engines, NEW m \in Inputs,
           toEngine' = [toEngine EXCEPT ![<<f, e>>] = Append(@, m)]
    PROVE  /\ toEngine' \in [Fronts \X Engines -> Seq(Inputs)]
           /\ toEngine'[f, e] = Append(toEngine[f, e], m)
           /\ \A g \in Fronts, d \in Engines :
                 /\ <<g, d>> # <<f, e>> => toEngine'[g, d] = toEngine[g, d]
                 /\ ToSet(toEngine'[g, d]) \subseteq ToSet(toEngine[g, d]) \cup {m}
<1>1. /\ toEngine \in [Fronts \X Engines -> Seq(Inputs)]
      /\ <<f, e>> \in Fronts \X Engines /\ toEngine[f, e] \in Seq(Inputs)
    BY DEF Types, ChannelTypes
<1>2. /\ Append(toEngine[f, e], m) \in Seq(Inputs)
      /\ ToSet(Append(toEngine[f, e], m)) = ToSet(toEngine[f, e]) \cup {m}
    <2> DEFINE s == toEngine[f, e]
    <2>1. s \in Seq(Inputs)
        BY <1>1
    <2> HIDE DEF s
    <2>2. Append(s, m) \in Seq(Inputs) /\ ToSet(Append(s, m)) = ToSet(s) \cup {m}
        BY <2>1, AppendSet
    <2> QED BY <2>2 DEF s
<1>3. /\ toEngine' \in [Fronts \X Engines -> Seq(Inputs)]
      /\ toEngine'[f, e] = Append(toEngine[f, e], m)
      /\ \A c \in Fronts \X Engines : c # <<f, e>> => toEngine'[c] = toEngine[c]
    BY <1>1, <1>2
<1>4. ASSUME NEW g \in Fronts, NEW d \in Engines
      PROVE  /\ <<g, d>> # <<f, e>> => toEngine'[g, d] = toEngine[g, d]
             /\ ToSet(toEngine'[g, d]) \subseteq ToSet(toEngine[g, d]) \cup {m}
    <2>1. CASE <<g, d>> = <<f, e>>
        BY <1>2, <1>3, <2>1
    <2>2. CASE <<g, d>> # <<f, e>>
        BY <1>1, <1>3, <2>2
    <2> QED BY <2>1, <2>2
<1> QED BY <1>3, <1>4

\* A call to every engine.
LEMMA CallFacts ==
    ASSUME Types, NEW m \in Inputs, toEngine' = Call(m)
    PROVE  /\ toEngine' \in [Fronts \X Engines -> Seq(Inputs)]
           /\ \A e \in Engines : toEngine'[Pauser, e] = Append(toEngine[Pauser, e], m)
           /\ \A g \in Fronts \ {Pauser}, e \in Engines : toEngine'[g, e] = toEngine[g, e]
           /\ \A g \in Fronts, e \in Engines :
                 ToSet(toEngine'[g, e]) \subseteq ToSet(toEngine[g, e]) \cup {m}
<1>1. /\ toEngine \in [Fronts \X Engines -> Seq(Inputs)]
      /\ toEngine' = [c \in Fronts \X Engines |->
                         IF c[1] = Pauser THEN Append(toEngine[c], m) ELSE toEngine[c]]
      /\ Pauser \in Fronts
    BY ConfigFacts DEF Types, ChannelTypes, OtherTypes, Call
<1>2. ASSUME NEW c \in Fronts \X Engines
      PROVE  Append(toEngine[c], m) \in Seq(Inputs)
    BY <1>1, AppendSet
<1>3. toEngine' \in [Fronts \X Engines -> Seq(Inputs)]
    BY <1>1, <1>2
<1>4. ASSUME NEW g \in Fronts, NEW e \in Engines
      PROVE  /\ g = Pauser => toEngine'[g, e] = Append(toEngine[g, e], m)
             /\ g # Pauser => toEngine'[g, e] = toEngine[g, e]
             /\ ToSet(toEngine'[g, e]) \subseteq ToSet(toEngine[g, e]) \cup {m}
    <2>1. /\ <<g, e>> \in Fronts \X Engines /\ <<g, e>>[1] = g
          /\ toEngine[g, e] \in Seq(Inputs)
        BY <1>1
    <2>2. /\ g = Pauser => toEngine'[g, e] = Append(toEngine[g, e], m)
          /\ g # Pauser => toEngine'[g, e] = toEngine[g, e]
        BY <1>1, <2>1
    <2>3. ToSet(Append(toEngine[g, e], m)) = ToSet(toEngine[g, e]) \cup {m}
        <3> DEFINE s == toEngine[g, e]
        <3>1. s \in Seq(Inputs)
            BY <2>1
        <3> HIDE DEF s
        <3>2. ToSet(Append(s, m)) = ToSet(s) \cup {m}
            BY <3>1, AppendSet
        <3> QED BY <3>2 DEF s
    <2> QED BY <2>2, <2>3
<1> QED BY <1>1, <1>3, <1>4

\* The parts of the state that a step leaves alone keep their types.
LEMMA EngineTypesKept ==
    ASSUME EngineTypes, Same, UNCHANGED engineVars
    PROVE  EngineTypes'
BY DEF EngineTypes, Same, engineVars, States

LEMMA ChannelTypesKept ==
    ASSUME ChannelTypes, Same, UNCHANGED channels
    PROVE  ChannelTypes'
BY DEF ChannelTypes, Same, channels

LEMMA OtherTypesKept ==
    ASSUME OtherTypes, Same, UNCHANGED <<coordVars, frontVars, pauses, calls>>
    PROVE  OtherTypes'
BY DEF OtherTypes, Same, coordVars, frontVars

LEMMA InitTypes ==
    ASSUME Init
    PROVE  Types
<1>1. config \in Configs
    BY DEF Init
<1>2. EngineTypes
    BY DEF Init, EngineTypes, States, NoResult
<1>3. ChannelTypes
    BY DEF Init, ChannelTypes
<1>4. OtherTypes
    <2>1. \A S : news \in [Fronts -> Seq(S)]
        BY DEF Init
    <2> QED BY <2>1 DEF Init, OtherTypes
<1> QED BY <1>2, <1>3, <1>4 DEF Types

LEMMA FrontTypes ==
    ASSUME Types, Same, NEW f \in Fronts, FrontStep(f)
    PROVE  Types'
<1>1. EngineTypes /\ ChannelTypes /\ OtherTypes
    BY DEF Types
<1>2. EngineTypes'
    BY <1>1, EngineTypesKept DEF FrontStep, SendFirst, ReadNews
<1>3. CASE SendFirst(f)
    <2>1. wakes[f] \in Seq(Nat) /\ fWave[f] \in Nat
        BY <1>1 DEF ChannelTypes, OtherTypes
    <2>2. Append(wakes[f], fWave[f]) \in Seq(Nat)
        BY <2>1
    <2>3. ChannelTypes'
        BY <1>1, <1>3, <2>2 DEF ChannelTypes, SendFirst, Same
    <2>4. first[f] - 1 \in Nat
        BY <1>1, <1>3 DEF SendFirst, OtherTypes
    <2>5. OtherTypes'
        BY <1>1, <1>3, <2>4 DEF OtherTypes, SendFirst, Same, coordVars, clientVars
    <2> QED BY <1>2, <2>3, <2>5 DEF Types
<1>4. CASE ReadNews(f)
    <2>1. ChannelTypes'
        BY <1>1, <1>4, ChannelTypesKept DEF ReadNews
    <2>2. news[f] \in Seq([wave : Nat, running : BOOLEAN]) /\ news[f] # <<>>
        BY <1>1, <1>4 DEF OtherTypes, ReadNews
    <2>3. /\ Head(news[f]) \in [wave : Nat, running : BOOLEAN]
          /\ Tail(news[f]) \in Seq([wave : Nat, running : BOOLEAN])
        BY <2>2, TailSet
    <2>4. OtherTypes'
        BY <1>1, <1>4, <2>3 DEF OtherTypes, ReadNews, Same, coordVars, clientVars
    <2> QED BY <1>2, <2>1, <2>4 DEF Types
<1> QED BY <1>3, <1>4 DEF FrontStep

\* What the coordinator sends.
LEMMA StartFacts ==
    ASSUME Types, NEW w \in Nat, NEW x \in Engines \cup {-1}
    PROVE  /\ Start(w, x) \in [Engines -> Seq([wave : Nat, exclude : Engines \cup {-1}])]
           /\ \A e \in Engines :
                 ToSet(Start(w, x)[e]) = ToSet(starts[e]) \cup {[wave |-> w, exclude |-> x]}
<1> DEFINE S == [wave : Nat, exclude : Engines \cup {-1}]
           m == [wave |-> w, exclude |-> x]
<1>1. m \in S /\ \A e \in Engines : starts[e] \in Seq(S)
    BY DEF Types, ChannelTypes
<1> HIDE DEF m, S
<1>2. \A e \in Engines : Append(starts[e], m) \in Seq(S)
                         /\ ToSet(Append(starts[e], m)) = ToSet(starts[e]) \cup {m}
    BY <1>1, AppendSet
<1>3. Start(w, x) = [e \in Engines |-> Append(starts[e], m)]
    BY DEF Start, m
<1> QED BY <1>2, <1>3 DEF m, S

LEMMA PublishFacts ==
    ASSUME Types, NEW w \in Nat, NEW on \in BOOLEAN
    PROVE  /\ Publish(w, on) \in [Fronts -> Seq([wave : Nat, running : BOOLEAN])]
           /\ \A f \in Fronts :
                 ToSet(Publish(w, on)[f]) = ToSet(news[f]) \cup {[wave |-> w, running |-> on]}
<1> DEFINE S == [wave : Nat, running : BOOLEAN]
           m == [wave |-> w, running |-> on]
<1>1. m \in S /\ \A f \in Fronts : news[f] \in Seq(S)
    BY DEF Types, OtherTypes
<1> HIDE DEF m, S
<1>2. \A f \in Fronts : Append(news[f], m) \in Seq(S)
                        /\ ToSet(Append(news[f], m)) = ToSet(news[f]) \cup {m}
    BY <1>1, AppendSet
<1>3. Publish(w, on) = [f \in Fronts |-> Append(news[f], m)]
    BY DEF Publish, m
<1> QED BY <1>2, <1>3 DEF m, S

LEMMA CoordTypes ==
    ASSUME Types, Same, CoordStep
    PROVE  Types'
<1>1. EngineTypes /\ ChannelTypes /\ OtherTypes
    BY DEF Types
<1>2. EngineTypes'
    BY <1>1, EngineTypesKept DEF CoordStep, CoordWake, CoordComplete, CoordStart
<1>3. -1 \in Engines \cup {-1} /\ Engines \subseteq Engines \cup {-1} /\ cWave \in Nat
    BY <1>1 DEF OtherTypes
<1>4. ASSUME NEW f \in Fronts, CoordWake(f) PROVE ChannelTypes' /\ OtherTypes'
    <2>1. Tail(wakes[f]) \in Seq(Nat)
        BY <1>1, <1>4 DEF ChannelTypes, CoordWake
    <2>2. /\ starts' \in [Engines -> Seq([wave : Nat, exclude : Engines \cup {-1}])]
          /\ news' \in [Fronts -> Seq([wave : Nat, running : BOOLEAN])]
          /\ cRunning' \in BOOLEAN
        <3>1. CASE cRunning
            BY <1>1, <1>4, <3>1 DEF ChannelTypes, OtherTypes, CoordWake
        <3>2. CASE ~cRunning
            <4>1. /\ starts' = Start(cWave, -1) /\ news' = Publish(cWave, TRUE)
                  /\ cRunning' = TRUE
                BY <1>4, <3>2 DEF CoordWake
            <4>2. Start(cWave, -1) \in [Engines -> Seq([wave : Nat, exclude : Engines \cup {-1}])]
                BY <1>3, StartFacts
            <4>3. Publish(cWave, TRUE) \in [Fronts -> Seq([wave : Nat, running : BOOLEAN])]
                BY <1>3, PublishFacts
            <4> QED BY <4>1, <4>2, <4>3
        <3> QED BY <3>1, <3>2
    <2>3. ChannelTypes'
        BY <1>1, <1>4, <2>1, <2>2 DEF ChannelTypes, CoordWake, Same
    <2>4. OtherTypes'
        BY <1>1, <1>4, <2>2 DEF OtherTypes, CoordWake, Same, clientVars
    <2> QED BY <2>3, <2>4
<1>5. ASSUME NEW e \in Engines, toCoord[e] # <<>>
      PROVE  /\ Head(toCoord[e]) \in [type : {"start", "complete"}, wave : Nat]
             /\ Tail(toCoord[e]) \in Seq([type : {"start", "complete"}, wave : Nat])
             /\ Head(toCoord[e]).wave \in Nat /\ Head(toCoord[e]).wave + 1 \in Nat
    <2>1. toCoord[e] \in Seq([type : {"start", "complete"}, wave : Nat])
        BY <1>1 DEF ChannelTypes
    <2>2. /\ Head(toCoord[e]) \in [type : {"start", "complete"}, wave : Nat]
          /\ Tail(toCoord[e]) \in Seq([type : {"start", "complete"}, wave : Nat])
        BY <1>5, <2>1, TailSet
    <2> QED BY <2>2
<1>6. ASSUME NEW e \in Engines, CoordComplete(e) PROVE ChannelTypes' /\ OtherTypes'
    <2>1. toCoord[e] # <<>>
        BY <1>6 DEF CoordComplete
    <2>2. ChannelTypes'
        BY <1>1, <1>5, <1>6, <2>1 DEF ChannelTypes, CoordComplete, Same
    <2>3. /\ news' \in [Fronts -> Seq([wave : Nat, running : BOOLEAN])]
          /\ cRunning' \in BOOLEAN /\ cWave' \in Nat
        <3>1. CASE cWave <= Head(toCoord[e]).wave
            BY <1>5, <1>6, <2>1, <3>1, PublishFacts DEF CoordComplete
        <3>2. CASE ~(cWave <= Head(toCoord[e]).wave)
            BY <1>1, <1>6, <3>2 DEF CoordComplete, OtherTypes, coordVars
        <3> QED BY <3>1, <3>2
    <2>4. OtherTypes'
        BY <1>1, <1>6, <2>3 DEF OtherTypes, CoordComplete, Same, clientVars
    <2> QED BY <2>2, <2>4
<1>7. ASSUME NEW e \in Engines, CoordStart(e) PROVE ChannelTypes' /\ OtherTypes'
    <2>1. toCoord[e] # <<>>
        BY <1>7 DEF CoordStart
    <2>2. /\ starts' \in [Engines -> Seq([wave : Nat, exclude : Engines \cup {-1}])]
          /\ news' \in [Fronts -> Seq([wave : Nat, running : BOOLEAN])]
          /\ cRunning' \in BOOLEAN /\ cWave' \in Nat
        <3>1. CASE StartsWave(Head(toCoord[e]).wave)
            <4> DEFINE w == Head(toCoord[e]).wave
            <4>1. /\ starts' = Start(w, e) /\ news' = Publish(w, TRUE)
                  /\ cRunning' = TRUE /\ cWave' = w
                BY <1>7, <3>1 DEF CoordStart
            <4>2. w \in Nat
                BY <1>5, <2>1
            <4> HIDE DEF w
            <4>3. Start(w, e) \in [Engines -> Seq([wave : Nat, exclude : Engines \cup {-1}])]
                BY <1>3, <4>2, StartFacts
            <4>4. Publish(w, TRUE) \in [Fronts -> Seq([wave : Nat, running : BOOLEAN])]
                BY <4>2, PublishFacts
            <4> QED BY <4>1, <4>2, <4>3, <4>4
        <3>2. CASE ~StartsWave(Head(toCoord[e]).wave)
            BY <1>1, <1>7, <3>2 DEF CoordStart, ChannelTypes, OtherTypes, coordVars
        <3> QED BY <3>1, <3>2
    <2>3. ChannelTypes'
        BY <1>1, <1>5, <1>7, <2>1, <2>2 DEF ChannelTypes, CoordStart, Same
    <2>4. OtherTypes'
        BY <1>1, <1>7, <2>2 DEF OtherTypes, CoordStart, Same, clientVars
    <2> QED BY <2>3, <2>4
<1> QED BY <1>2, <1>4, <1>6, <1>7 DEF CoordStep, Types

LEMMA InputTypes ==
    ASSUME Types, Same, NEW f \in Fronts, NEW e \in Engines, HandleInput(f, e)
    PROVE  Types'
<1>1. EngineTypes /\ ChannelTypes /\ OtherTypes
    BY DEF Types
<1>2. CASE HandleAdd(f, e)
    <2>1. Take(f, e, "add")
        BY <1>2 DEF HandleAdd
    <2> DEFINE msg == Head(toEngine[f, e])
    <2>2. msg \in Inputs /\ msg.type = "add"
        BY <2>1, TakeFacts
    <2>3. msg.wave \in Nat
        BY <2>2 DEF Inputs, Adds
    <2>4. wave[e] \in Nat /\ Max({wave[e], msg.wave}) \in Nat
        <3>1. wave[e] \in Nat
            BY <1>1 DEF EngineTypes
        <3> HIDE DEF msg
        <3> QED BY <2>3, <3>1, MaxWave
    <2>5. EngineTypes'
        <3>1. wave' \in [Engines -> Nat]
            BY <1>1, <1>2, <2>4 DEF EngineTypes, HandleAdd
        <3>2. running' \in [Engines -> BOOLEAN]
            BY <1>1, <1>2 DEF EngineTypes, HandleAdd
        <3>3. DOMAIN waitQ' = Engines
            BY <1>1, <1>2 DEF EngineTypes, HandleAdd
        <3> QED BY <1>1, <1>2, <3>1, <3>2, <3>3 DEF EngineTypes, HandleAdd, Same, States
    <2>6. toCoord' \in [Engines -> Seq([type : {"start", "complete"}, wave : Nat])]
        <3> DEFINE S == [type : {"start", "complete"}, wave : Nat]
        <3>1. [type |-> "start", wave |-> wave[e]] \in S /\ toCoord \in [Engines -> Seq(S)]
            BY <1>1, <2>4 DEF ChannelTypes
        <3> DEFINE m == [type |-> "start", wave |-> wave[e]]
        <3>2. toCoord' = toCoord \/ toCoord' = [toCoord EXCEPT ![e] = Append(@, m)]
            BY <1>2 DEF HandleAdd
        <3>3. m \in S
            BY <3>1
        <3> HIDE DEF m, S
        <3>4. Append(toCoord[e], m) \in Seq(S)
            BY <3>1, <3>3
        <3>5. toCoord' \in [Engines -> Seq(S)]
            BY <3>1, <3>2, <3>4
        <3> QED BY <3>5 DEF S
    <2>7. ChannelTypes'
        BY <1>1, <1>2, <2>1, <2>6, TakeFacts DEF ChannelTypes, HandleAdd, Same
    <2>8. OtherTypes'
        BY <1>1, <1>2, OtherTypesKept DEF HandleAdd, clientVars
    <2> QED BY <2>5, <2>7, <2>8 DEF Types
<1>3. CASE HandleAbort(f, e)
    <2>1. Take(f, e, "abort")
        BY <1>3 DEF HandleAbort
    <2>2. EngineTypes'
        <3>1. DOMAIN waitQ' = Engines /\ DOMAIN runQ' = Engines
            BY <1>1, <1>3 DEF EngineTypes, HandleAbort
        <3> QED BY <1>1, <1>3, <3>1 DEF EngineTypes, HandleAbort, Same, States
    <2>3. ChannelTypes'
        BY <1>1, <1>3, <2>1, TakeFacts DEF ChannelTypes, HandleAbort, Same
    <2>4. OtherTypes'
        BY <1>1, <1>3, OtherTypesKept DEF HandleAbort, coordVars, frontVars
    <2> QED BY <2>2, <2>3, <2>4 DEF Types
<1>4. CASE HandlePause(f, e)
    <2>1. Take(f, e, "pause")
        BY <1>4 DEF HandlePause
    <2>2. EngineTypes'
        <3>1. DOMAIN waitQ' = Engines /\ DOMAIN runQ' = Engines
            BY <1>1, <1>4 DEF EngineTypes, HandlePause
        <3>2. /\ paused' \in [Engines -> {"no", "new", "all"}]
              /\ pending' \in [Engines -> BOOLEAN] /\ running' \in [Engines -> BOOLEAN]
            BY <1>1, <1>4 DEF EngineTypes, HandlePause
        <3> QED BY <1>1, <1>4, <3>1, <3>2 DEF EngineTypes, HandlePause, Same, States
    <2>3. ChannelTypes'
        BY <1>1, <1>4, <2>1, TakeFacts DEF ChannelTypes, HandlePause, Same
    <2>4. OtherTypes'
        BY <1>1, <1>4, OtherTypesKept DEF HandlePause, coordVars, frontVars
    <2> QED BY <2>2, <2>3, <2>4 DEF Types
<1>5. CASE HandleResume(f, e)
    <2>1. Take(f, e, "resume")
        BY <1>5 DEF HandleResume
    <2>2. EngineTypes'
        BY <1>1, <1>5 DEF EngineTypes, HandleResume, Same, States
    <2>3. ChannelTypes'
        BY <1>1, <1>5, <2>1, TakeFacts DEF ChannelTypes, HandleResume, Same
    <2>4. OtherTypes'
        BY <1>1, <1>5, OtherTypesKept DEF HandleResume, clientVars
    <2> QED BY <2>2, <2>3, <2>4 DEF Types
<1> QED BY <1>2, <1>3, <1>4, <1>5 DEF HandleInput

LEMMA EngineStepTypes ==
    ASSUME Types, Same, NEW e \in Engines,
           HandleStart(e) \/ Begin(e) \/ EndLoop(e) \/ PauseDone(e)
    PROVE  Types'
<1>1. EngineTypes /\ ChannelTypes /\ OtherTypes
    BY DEF Types
<1>2. CASE HandleStart(e)
    <2> DEFINE S == [wave : Nat, exclude : Engines \cup {-1}]
    <2>1. starts \in [Engines -> Seq(S)] /\ starts[e] # <<>>
          /\ starts' = [starts EXCEPT ![e] = Tail(@)]
        BY <1>1, <1>2 DEF ChannelTypes, HandleStart
    <2> HIDE DEF S
    <2>2. Head(starts[e]) \in S /\ Tail(starts[e]) \in Seq(S)
        BY <2>1, TailSet
    <2>3. starts' \in [Engines -> Seq(S)]
        BY <2>1, <2>2
    <2>4. Head(starts[e]).wave \in Nat
        BY <2>2 DEF S
    <2>5. wave' \in [Engines -> Nat] /\ running' \in [Engines -> BOOLEAN]
        BY <1>1, <1>2, <2>4 DEF EngineTypes, HandleStart
    <2>6. EngineTypes'
        BY <1>1, <1>2, <2>5 DEF EngineTypes, HandleStart, Same, States
    <2>7. ChannelTypes'
        BY <1>1, <1>2, <2>3 DEF ChannelTypes, HandleStart, Same, S
    <2>8. OtherTypes'
        BY <1>1, <1>2, OtherTypesKept DEF HandleStart, clientVars
    <2> QED BY <2>6, <2>7, <2>8 DEF Types
<1>3. CASE Begin(e)
    <2>1. EngineTypes'
        <3>1. DOMAIN waitQ' = Engines /\ DOMAIN runQ' = Engines
            BY <1>1, <1>3 DEF EngineTypes, Begin
        <3> QED BY <1>1, <1>3, <3>1 DEF EngineTypes, Begin, Same, States
    <2>2. ChannelTypes'
        BY <1>1, <1>3, ChannelTypesKept DEF Begin
    <2>3. OtherTypes'
        BY <1>1, <1>3, OtherTypesKept DEF Begin, clientVars
    <2> QED BY <2>1, <2>2, <2>3 DEF Types
<1>4. CASE EndLoop(e)
    <2>1. wave[e] \in Nat /\ wave[e] + 1 \in Nat /\ 0 \in Engines /\ wave[0] \in Nat
        BY <1>1, ConfigFacts DEF EngineTypes, OtherTypes
    <2>2. EngineTypes'
        <3>1. wave' \in [Engines -> Nat] /\ DOMAIN step' = Engines
            <4>1. /\ wave' = wave \/ wave' = [wave EXCEPT ![e] = @ + 1]
                  /\ step' = step \/ step' = [step EXCEPT ![e] = 0]
                BY <1>4 DEF EndLoop
            <4>2. wave' \in [Engines -> Nat]
                BY <1>1, <2>1, <4>1 DEF EngineTypes
            <4>3. DOMAIN step' = Engines
                BY <1>1, <4>1 DEF EngineTypes
            <4> QED BY <4>2, <4>3
        <3>2. /\ reduced' \in [unfinished : BOOLEAN, agreed : BOOLEAN]
              /\ running' \in [Engines -> BOOLEAN] /\ ignore' \in [Engines -> BOOLEAN]
              /\ pending' \in [Engines -> BOOLEAN]
            <4>1. reduced' = reduced \/ reduced' = NoResult
                BY <1>4 DEF EndLoop
            <4>2. /\ reduced \in [unfinished : BOOLEAN, agreed : BOOLEAN]
                  /\ NoResult \in [unfinished : BOOLEAN, agreed : BOOLEAN]
                  /\ reduced.unfinished \in BOOLEAN
                BY <1>1 DEF EngineTypes, NoResult
            <4>3. /\ running' = [running EXCEPT ![e] = reduced.unfinished]
                  /\ ignore' = [ignore EXCEPT ![e] = @ \/ reduced.agreed]
                  /\ pending' = [pending EXCEPT ![e] = @ /\ ~reduced.agreed]
                BY <1>4 DEF EndLoop
            <4>4. running' \in [Engines -> BOOLEAN]
                BY <1>1, <4>2, <4>3 DEF EngineTypes
            <4>5. ignore' \in [Engines -> BOOLEAN] /\ pending' \in [Engines -> BOOLEAN]
                BY <1>1, <4>3 DEF EngineTypes
            <4> QED BY <4>1, <4>2, <4>4, <4>5
        <3> QED BY <1>1, <1>4, <3>1, <3>2 DEF EngineTypes, EndLoop, Same, States
    <2>3. toCoord' \in [Engines -> Seq([type : {"start", "complete"}, wave : Nat])]
        <3> DEFINE S == [type : {"start", "complete"}, wave : Nat]
                   m == [type |-> "complete", wave |-> wave[0]]
        <3>1. m \in S /\ toCoord \in [Engines -> Seq(S)]
            BY <1>1, <2>1 DEF ChannelTypes
        <3>2. toCoord' = toCoord \/ toCoord' = [toCoord EXCEPT ![0] = Append(@, m)]
            BY <1>4 DEF EndLoop
        <3> HIDE DEF m, S
        <3>3. Append(toCoord[0], m) \in Seq(S)
            BY <2>1, <3>1
        <3>4. toCoord' \in [Engines -> Seq(S)]
            BY <2>1, <3>1, <3>2, <3>3
        <3> QED BY <3>4 DEF S
    <2>4. ChannelTypes'
        BY <1>1, <1>4, <2>3 DEF ChannelTypes, EndLoop, Same
    <2>5. OtherTypes'
        BY <1>1, <1>4, OtherTypesKept DEF EndLoop, clientVars
    <2> QED BY <2>2, <2>4, <2>5 DEF Types
<1>5. CASE PauseDone(e)
    <2>1. EngineTypes'
        BY <1>1, <1>5, EngineTypesKept DEF PauseDone
    <2>2. ChannelTypes'
        BY <1>1, <1>5, ChannelTypesKept DEF PauseDone
    <2>3. OtherTypes'
        BY <1>1, <1>5 DEF PauseDone, OtherTypes, Same, coordVars, frontVars
    <2> QED BY <2>1, <2>2, <2>3 DEF Types
<1> QED BY <1>2, <1>3, <1>4, <1>5

LEMMA CollectiveTypes ==
    ASSUME Types, Same,
           (\E es \in SUBSET Engines : Forward(es)) \/ AllReduce \/ ResumeBarrier
    PROVE  Types'
<1>1. EngineTypes /\ ChannelTypes /\ OtherTypes
    BY DEF Types
<1>2. ASSUME NEW es \in SUBSET Engines, Forward(es) PROVE Types'
    <2>1. EngineTypes'
        <3>1. pc' \in [Engines -> States] /\ running' \in [Engines -> BOOLEAN]
            BY <1>1, <1>2 DEF EngineTypes, Forward, States
        <3>2. DOMAIN runQ' = Engines /\ DOMAIN step' = Engines
            BY <1>1, <1>2 DEF EngineTypes, Forward
        <3> QED BY <1>1, <1>2, <3>1, <3>2 DEF EngineTypes, Forward, Same
    <2>2. ChannelTypes'
        BY <1>1, <1>2, ChannelTypesKept DEF Forward
    <2>3. OtherTypes'
        BY <1>1, <1>2, OtherTypesKept DEF Forward, coordVars, frontVars
    <2> QED BY <2>1, <2>2, <2>3 DEF Types
<1>3. CASE AllReduce
    <2>1. EngineTypes'
        <3>1. reduced' \in [unfinished : BOOLEAN, agreed : BOOLEAN]
            BY <1>3 DEF AllReduce, SyncState
        <3> QED BY <1>1, <1>3, <3>1 DEF EngineTypes, AllReduce, Same, States
    <2>2. ChannelTypes'
        BY <1>1, <1>3, ChannelTypesKept DEF AllReduce
    <2>3. OtherTypes'
        BY <1>1, <1>3, OtherTypesKept DEF AllReduce, clientVars
    <2> QED BY <2>1, <2>2, <2>3 DEF Types
<1>4. CASE ResumeBarrier
    <2>1. EngineTypes'
        <3>1. running' \in [Engines -> BOOLEAN]
            BY <1>4 DEF ResumeBarrier
        <3> QED BY <1>1, <1>4, <3>1 DEF EngineTypes, ResumeBarrier, Same, States
    <2>2. ChannelTypes'
        BY <1>1, <1>4, ChannelTypesKept DEF ResumeBarrier
    <2>3. OtherTypes'
        BY <1>1, <1>4 DEF ResumeBarrier, OtherTypes, Same, coordVars, frontVars
    <2> QED BY <2>1, <2>2, <2>3 DEF Types
<1> QED BY <1>2, <1>3, <1>4

LEMMA ClientTypes ==
    ASSUME Types, Same, ClientStep \/ ResumeGeneration
    PROVE  Types'
<1>1. EngineTypes /\ ChannelTypes /\ OtherTypes
    BY DEF Types
<1>2. EngineTypes'
    BY <1>1, EngineTypesKept
       DEF ClientStep, AddRequest, AbortRequest, PauseGeneration, ResumeGeneration
<1>3. ASSUME NEW r \in Requests, NEW e \in Targets[r],
             AddRequest(FrontOf[r], e, r) \/ AbortRequest(FrontOf[r], e, r)
      PROVE  ChannelTypes' /\ OtherTypes'
    <2> DEFINE f == FrontOf[r]
    <2>1. f \in Fronts /\ e \in Engines
        BY <1>1, ConfigFacts DEF OtherTypes
    <2> HIDE DEF f
    <2>2. CASE AddRequest(f, e, r)
        <3>1. fWave[f] \in Nat /\ first[f] + 1 \in Nat
            BY <1>1, <2>1 DEF OtherTypes
        <3>2. [type |-> "add", req |-> r, wave |-> fWave[f]] \in Inputs
            BY <3>1 DEF Inputs, Adds
        <3>3. toEngine' \in [Fronts \X Engines -> Seq(Inputs)]
            BY <2>1, <2>2, <3>2, SendFacts DEF AddRequest
        <3>4. ChannelTypes'
            BY <1>1, <2>2, <3>3 DEF ChannelTypes, AddRequest, Same
        <3>5. first' \in [Fronts -> Nat]
            BY <1>1, <2>2, <3>1 DEF OtherTypes, AddRequest
        <3>6. OtherTypes'
            BY <1>1, <2>2, <3>5 DEF OtherTypes, AddRequest, Same, coordVars
        <3> QED BY <3>4, <3>6
    <2>3. CASE AbortRequest(f, e, r)
        <3>1. [type |-> "abort", req |-> r] \in Inputs
            BY DEF Inputs
        <3>2. toEngine' \in [Fronts \X Engines -> Seq(Inputs)]
            BY <2>1, <2>3, <3>1, SendFacts DEF AbortRequest
        <3>3. ChannelTypes'
            BY <1>1, <2>3, <3>2 DEF ChannelTypes, AbortRequest, Same
        <3>4. OtherTypes'
            BY <1>1, <2>3, OtherTypesKept DEF AbortRequest
        <3> QED BY <3>3, <3>4
    <2> QED BY <1>3, <2>2, <2>3 DEF f
<1>4. ASSUME NEW m \in Inputs, toEngine' = Call(m), pauses' = pauses + 1, calls' = Engines,
             UNCHANGED <<coordVars, frontVars, starts, toCoord, wakes>>
      PROVE  ChannelTypes' /\ OtherTypes'
    <2>1. toEngine' \in [Fronts \X Engines -> Seq(Inputs)]
        BY <1>4, CallFacts
    <2>2. ChannelTypes'
        BY <1>1, <1>4, <2>1 DEF ChannelTypes, Same
    <2>3. pauses' \in Nat
        BY <1>1, <1>4 DEF OtherTypes
    <2>4. OtherTypes'
        BY <1>1, <1>4, <2>3 DEF OtherTypes, Same, coordVars, frontVars
    <2> QED BY <2>2, <2>4
<1>5. CASE PauseGeneration
    <2>1. PICK m \in Modes : toEngine' = Call([type |-> "pause", mode |-> m])
        BY <1>5 DEF PauseGeneration
    <2>2. [type |-> "pause", mode |-> m] \in Inputs
        BY DEF Inputs
    <2>3. ChannelTypes' /\ OtherTypes'
        BY <1>4, <1>5, <2>1, <2>2 DEF PauseGeneration
    <2> QED BY <1>2, <2>3 DEF Types
<1>6. CASE ResumeGeneration
    <2>1. [type |-> "resume"] \in Inputs
        BY DEF Inputs
    <2>2. ChannelTypes' /\ OtherTypes'
        BY <1>4, <1>6, <2>1 DEF ResumeGeneration
    <2> QED BY <1>2, <2>2 DEF Types
<1> QED BY <1>2, <1>3, <1>5, <1>6 DEF ClientStep, Types

LEMMA CollectiveCases ==
    ASSUME Collective
    PROVE  (\E es \in SUBSET Engines : Forward(es)) \/ AllReduce \/ ResumeBarrier
<1>1. Engines \in SUBSET Engines /\ \A e \in Engines : {e} \in SUBSET Engines
    OBVIOUS
<1> QED BY <1>1 DEF Collective

LEMMA StepTypes ==
    ASSUME Types, [Next]_vars
    PROVE  Types'
<1>1. Same
    BY NextSame
<1>2. CASE UNCHANGED vars
    BY <1>1, <1>2, EngineTypesKept, ChannelTypesKept, OtherTypesKept
       DEF Types, vars, clientVars
<1>3. CASE \E f \in Fronts : FrontStep(f)
    BY <1>1, <1>3, FrontTypes
<1>4. CASE CoordStep
    BY <1>1, <1>4, CoordTypes
<1>5. CASE \E e \in Engines : EngineStep(e)
    BY <1>1, <1>5, EngineStepTypes, InputTypes DEF EngineStep
<1>6. CASE Collective
    BY <1>1, <1>6, CollectiveCases, CollectiveTypes
<1>7. CASE ClientStep \/ ResumeGeneration
    BY <1>1, <1>7, ClientTypes
<1> QED BY <1>2, <1>3, <1>4, <1>5, <1>6, <1>7 DEF Next

-----------------------------------------------------------------------------
(* The engines agree on their wave.                                        *)

\* No message moves an engine to another wave.
LEMMA AddKeepsWave ==
    ASSUME Types, WavesAgree, NEW f \in Fronts, NEW e \in Engines, HandleAdd(f, e)
    PROVE  /\ wave' = wave /\ pc[e] = "poll" /\ wave[e] = Now
           /\ Head(toEngine[f, e]).wave \in Nat /\ Head(toEngine[f, e]).wave <= cWave
<1> DEFINE msg == Head(toEngine[f, e])
<1>1. /\ pc[e] = "poll" /\ msg \in Inputs /\ msg \in ToSet(toEngine[f, e]) /\ msg.type = "add"
    BY TakeFacts DEF HandleAdd
<1>2. msg.wave \in Nat
    BY <1>1 DEF Inputs, Adds
<1>3. msg.wave <= cWave
    BY <1>1 DEF WavesAgree
<1>4. wave \in [Engines -> Nat] /\ cWave \in Nat
    BY DEF Types, EngineTypes, OtherTypes
<1>5. Current(e) = wave[e]
    <2>1. pc[e] # "synced" /\ wave[e] \in Nat
        BY <1>1, <1>4
    <2> HIDE DEF msg
    <2> QED BY <2>1 DEF Current, Over
<1>6. cWave <= wave[e] /\ wave[e] = Now
    BY <1>5 DEF WavesAgree
<1>7. wave' = [wave EXCEPT ![e] = Max({wave[e], msg.wave})]
    BY DEF HandleAdd
<1> HIDE DEF msg
<1>8. Max({wave[e], msg.wave}) = wave[e]
    BY <1>2, <1>3, <1>4, <1>6, MaxWave
<1> QED BY <1>1, <1>2, <1>3, <1>4, <1>6, <1>7, <1>8 DEF msg

LEMMA StartKeepsWave ==
    ASSUME Types, WavesAgree, NEW e \in Engines, HandleStart(e)
    PROVE  /\ wave' = wave /\ pc[e] = "poll" /\ wave[e] = Now
           /\ Head(starts[e]) \in ToSet(starts[e]) /\ Head(starts[e]).wave \in Nat
           /\ starts[e] # <<>> /\ Head(starts[e]).wave <= cWave
           /\ starts[e] \in Seq([wave : Nat, exclude : Engines \cup {-1}])
<1> DEFINE msg == Head(starts[e])
           S == [wave : Nat, exclude : Engines \cup {-1}]
<1>1. pc[e] = "poll" /\ starts[e] # <<>> /\ starts[e] \in Seq(S)
    BY DEF HandleStart, Types, ChannelTypes
<1> HIDE DEF S
<1>2. msg \in S /\ msg \in ToSet(starts[e])
    BY <1>1, TailSet
<1>3. msg.wave \in Nat /\ msg.wave <= cWave
    BY <1>2 DEF WavesAgree, S
<1>4. wave \in [Engines -> Nat] /\ cWave \in Nat
    BY DEF Types, EngineTypes, OtherTypes
<1>5. Current(e) = wave[e]
    BY <1>1, <1>4 DEF Current, Over
<1>6. cWave <= wave[e] /\ wave[e] = Now
    BY <1>5 DEF WavesAgree
<1>7. wave' = wave \/ (msg.wave >= wave[e] /\ wave' = [wave EXCEPT ![e] = msg.wave])
    BY DEF HandleStart, Accepts
<1> HIDE DEF msg
<1>8. wave' = wave
    BY <1>3, <1>4, <1>6, <1>7
<1> QED BY <1>1, <1>2, <1>3, <1>6, <1>8 DEF msg, S

LEMMA SameWaves ==
    ASSUME Same, wave' = wave, reduced' = reduced, 0 \in Engines,
           \A e \in Engines : pc'[e] = "synced" <=> pc[e] = "synced"
    PROVE  /\ \A e \in Engines : Current(e)' = Current(e) /\ (Over(e)' <=> Over(e))
           /\ Now' = Now
BY DEF Current, Over, Now

\* The wave of all engines changes in the all-reduce that ends it, and the
\* moment at which an engine notes that does not matter.
LEMMA WaveStep ==
    ASSUME Types, WavesAgree, [Next]_vars
    PROVE  \/ Now' = Now /\ \A e \in Engines : Current(e)' = Current(e)
           \/ /\ AllReduce /\ SyncState.unfinished = FALSE
              /\ Now' = Now + 1 /\ \A e \in Engines : Current(e)' = Current(e) + 1
<1>1. Same /\ 0 \in Engines
    BY NextSame, ConfigFacts DEF Types, OtherTypes
<1>2. /\ wave \in [Engines -> Nat] /\ pc \in [Engines -> States]
      /\ reduced.unfinished \in BOOLEAN
    BY DEF Types, EngineTypes
<1> DEFINE Kept == Now' = Now /\ \A e \in Engines : Current(e)' = Current(e)
<1>3. ASSUME wave' = wave, reduced' = reduced,
             \A e \in Engines : pc'[e] = "synced" <=> pc[e] = "synced"
      PROVE  Kept
    BY <1>1, <1>3, SameWaves
<1> HIDE DEF Kept
<1>4. CASE UNCHANGED vars \/ (\E f \in Fronts : FrontStep(f)) \/ CoordStep \/ ClientStep
           \/ ResumeGeneration
    <2>1. wave' = wave /\ reduced' = reduced /\ pc' = pc
        BY <1>4 DEF vars, engineVars, FrontStep, SendFirst, ReadNews, CoordStep, CoordWake,
                    CoordComplete, CoordStart, ClientStep, AddRequest, AbortRequest,
                    PauseGeneration, ResumeGeneration
    <2> QED BY <1>3, <2>1 DEF Kept
<1>5. ASSUME NEW e \in Engines, NEW f \in Fronts, HandleInput(f, e) PROVE Kept
    <2>1. wave' = wave /\ reduced' = reduced
        BY <1>5, AddKeepsWave DEF HandleInput, HandleAdd, HandleAbort, HandlePause, HandleResume
    <2>2. pc' = pc \/ (pc[e] = "poll" /\ pc' = [pc EXCEPT ![e] = "resume"])
        BY <1>5 DEF HandleInput, HandleAdd, HandleAbort, HandlePause, HandleResume, Take
    <2> QED BY <1>2, <1>3, <2>1, <2>2
<1>6. ASSUME NEW e \in Engines, HandleStart(e) \/ Begin(e) \/ PauseDone(e) PROVE Kept
    <2>1. wave' = wave /\ reduced' = reduced
        BY <1>6, StartKeepsWave DEF HandleStart, Begin, PauseDone, engineVars
    <2>2. pc' = pc \/ (pc[e] = "poll" /\ pc' = [pc EXCEPT ![e] = "forward"])
        BY <1>6 DEF HandleStart, Begin, PauseDone, engineVars
    <2> QED BY <1>2, <1>3, <2>1, <2>2
<1>7. ASSUME NEW e \in Engines, EndLoop(e) PROVE Kept
    <2>1. /\ pc[e] = "synced" /\ pc' = [pc EXCEPT ![e] = "poll"]
          /\ wave' = IF reduced.unfinished THEN wave ELSE [wave EXCEPT ![e] = @ + 1]
          /\ (\E d \in Engines \ {e} : pc[d] = "synced") => reduced' = reduced
        BY <1>7 DEF EndLoop
    <2>2. ASSUME NEW d \in Engines PROVE Current(d)' = Current(d)
        <3>1. CASE d = e
            <4>1. pc'[d] = "poll" /\ pc[d] = "synced"
                BY <1>2, <2>1, <3>1
            <4>2. wave'[d] = IF reduced.unfinished THEN wave[d] ELSE wave[d] + 1
                BY <1>2, <2>1, <3>1
            <4> QED BY <1>2, <4>1, <4>2 DEF Current, Over
        <3>2. CASE d # e
            <4>1. pc'[d] = pc[d] /\ wave'[d] = wave[d]
                BY <1>2, <2>1, <3>2
            <4>2. pc[d] = "synced" => reduced' = reduced
                BY <2>1, <3>2
            <4> QED BY <4>1, <4>2 DEF Current, Over
        <3> QED BY <3>1, <3>2
    <2>3. Now' = Now
        BY <1>1, <2>2 DEF Now
    <2> QED BY <2>2, <2>3 DEF Kept
<1>8. ASSUME NEW es \in SUBSET Engines, Forward(es) PROVE Kept
    <2>1. wave' = wave /\ reduced' = reduced
        BY <1>8 DEF Forward
    <2>2. ASSUME NEW e \in Engines PROVE pc'[e] = "synced" <=> pc[e] = "synced"
        <3>1. CASE e \in es
            <4>1. pc[e] = "forward" /\ pc'[e] \in {"sync", "poll"}
                BY <1>2, <1>8, <3>1 DEF Forward
            <4> QED BY <4>1
        <3>2. CASE e \notin es
            BY <1>2, <1>8, <3>2 DEF Forward
        <3> QED BY <3>1, <3>2
    <2> QED BY <1>3, <2>1, <2>2
<1>9. CASE AllReduce
    <2>1. /\ \A e \in Engines : pc[e] = "sync" /\ pc'[e] = "synced"
          /\ wave' = wave /\ reduced' = SyncState
        BY <1>9 DEF AllReduce
    <2>2. SyncState.unfinished \in BOOLEAN
        BY DEF SyncState
    <2>3. \A e \in Engines : Current(e) = wave[e]
        BY <1>2, <2>1 DEF Current, Over
    <2>4. \A e \in Engines : Current(e)' = IF SyncState.unfinished THEN wave[e] ELSE wave[e] + 1
        BY <1>2, <2>1, <2>2 DEF Current, Over
    <2> QED BY <1>1, <1>9, <2>2, <2>3, <2>4 DEF Now, Kept
<1>10. CASE ResumeBarrier
    <2>1. /\ \A e \in Engines : pc[e] = "resume" /\ pc'[e] = "poll"
          /\ wave' = wave /\ reduced' = reduced
        BY <1>10 DEF ResumeBarrier
    <2>2. Kept
        BY <1>3, <2>1
    <2> QED BY <2>2 DEF Kept
<1> QED BY <1>4, <1>5, <1>6, <1>7, <1>8, <1>9, <1>10, CollectiveCases
        DEF Next, EngineStep, Kept

LEMMA ElementIn ==
    ASSUME NEW S, NEW s \in Seq(S), NEW x \in ToSet(s)
    PROVE  x \in S
BY DEF ToSet

\* The messages that say a wave carry natural numbers.
LEMMA MessageWaves ==
    ASSUME Types
    PROVE  /\ cWave \in Nat /\ Now \in Nat
           /\ \A e \in Engines :
                 /\ wave[e] \in Nat /\ Current(e) \in Nat
                 /\ \A m \in ToSet(starts[e]) : m.wave \in Nat
                 /\ \A m \in ToSet(toCoord[e]) : m.wave \in Nat /\ m.type \in {"start", "complete"}
           /\ \A f \in Fronts :
                 /\ fWave[f] \in Nat
                 /\ \A n \in ToSet(news[f]) : n.wave \in Nat /\ n.running \in BOOLEAN
                 /\ \A w \in ToSet(wakes[f]) : w \in Nat
           /\ \A f \in Fronts, e \in Engines : \A m \in ToSet(toEngine[f, e]) :
                 m \in Inputs /\ (m.type = "add" => m.wave \in Nat)
<1>1. cWave \in Nat /\ wave \in [Engines -> Nat] /\ 0 \in Engines /\ fWave \in [Fronts -> Nat]
    BY ConfigFacts DEF Types, EngineTypes, OtherTypes
<1>2. \A e \in Engines : wave[e] \in Nat /\ Current(e) \in Nat
    BY <1>1 DEF Current
<1>3. Now \in Nat
    BY <1>1, <1>2 DEF Now
<1>4. ASSUME NEW e \in Engines, NEW m \in ToSet(starts[e]) PROVE m.wave \in Nat
    <2> DEFINE S == [wave : Nat, exclude : Engines \cup {-1}]
    <2>1. starts[e] \in Seq(S)
        BY DEF Types, ChannelTypes
    <2> HIDE DEF S
    <2>2. m \in S
        BY <1>4, <2>1, ElementIn
    <2> QED BY <2>2 DEF S
<1>5. ASSUME NEW e \in Engines, NEW m \in ToSet(toCoord[e])
      PROVE  m.wave \in Nat /\ m.type \in {"start", "complete"}
    <2> DEFINE S == [type : {"start", "complete"}, wave : Nat]
    <2>1. toCoord[e] \in Seq(S)
        BY DEF Types, ChannelTypes
    <2> HIDE DEF S
    <2>2. m \in S
        BY <1>5, <2>1, ElementIn
    <2> QED BY <2>2 DEF S
<1>6. ASSUME NEW f \in Fronts, NEW n \in ToSet(news[f])
      PROVE  n.wave \in Nat /\ n.running \in BOOLEAN
    <2> DEFINE S == [wave : Nat, running : BOOLEAN]
    <2>1. news[f] \in Seq(S)
        BY DEF Types, OtherTypes
    <2> HIDE DEF S
    <2>2. n \in S
        BY <1>6, <2>1, ElementIn
    <2> QED BY <2>2 DEF S
<1>7. ASSUME NEW f \in Fronts, NEW w \in ToSet(wakes[f]) PROVE w \in Nat
    <2>1. wakes[f] \in Seq(Nat)
        BY DEF Types, ChannelTypes
    <2> QED BY <1>7, <2>1, ElementIn
<1>8. ASSUME NEW f \in Fronts, NEW e \in Engines, NEW m \in ToSet(toEngine[f, e])
      PROVE  m \in Inputs /\ (m.type = "add" => m.wave \in Nat)
    <2>1. toEngine[f, e] \in Seq(Inputs)
        BY DEF Types, ChannelTypes
    <2>2. m \in Inputs
        BY <1>8, <2>1, ElementIn
    <2> QED BY <2>2 DEF Inputs, Adds
<1> QED BY <1>1, <1>2, <1>3, <1>4, <1>5, <1>6, <1>7, <1>8

LEMMA AtMost ==
    ASSUME NEW a \in Nat, NEW b \in Nat, NEW c \in Nat, b <= c
    PROVE  (a <= b => a <= c) /\ (a < b => a < c)
OBVIOUS

\* What has to be shown of a step: the coordinator's wave does not go back, and
\* what is new in a channel is not ahead.
LEMMA WavesAgreeIf ==
    ASSUME Types, WavesAgree, Same, NEW n \in Nat, cWave' \in Nat,
           n >= Now, \A e \in Engines : Current(e)' = n, Now' = n,
           cWave <= cWave', cWave' <= n,
           \A f \in Fronts :
              /\ fWave'[f] = fWave[f] \/ fWave'[f] <= cWave'
              /\ \A m \in ToSet(news'[f]) : m \in ToSet(news[f]) \/ m.wave <= cWave',
           \A f \in Fronts, e \in Engines : \A m \in ToSet(toEngine'[f, e]) :
              m \in ToSet(toEngine[f, e]) \/ (m.type = "add" => m.wave <= cWave'),
           \A e \in Engines :
              /\ \A m \in ToSet(starts'[e]) : m \in ToSet(starts[e]) \/ m.wave <= cWave'
              /\ \A m \in ToSet(toCoord'[e]) :
                    \/ m \in ToSet(toCoord[e])
                    \/ IF m.type = "start" THEN m.wave <= n ELSE m.wave < n
    PROVE  WavesAgree'
<1>2. Now \in Nat /\ Now <= n /\ cWave \in Nat
    BY MessageWaves
<1>3. ASSUME NEW f \in Fronts PROVE fWave'[f] <= cWave'
    <2>1. fWave[f] \in Nat /\ fWave[f] <= cWave
        BY MessageWaves DEF WavesAgree
    <2> QED BY AtMost, <1>2, <2>1
<1>4. ASSUME NEW f \in Fronts, NEW m \in ToSet(news'[f]) PROVE m.wave <= cWave'
    <2>1. m \in ToSet(news[f]) => m.wave \in Nat /\ m.wave <= cWave
        BY MessageWaves DEF WavesAgree
    <2> QED BY AtMost, <1>2, <1>4, <2>1
<1>5. ASSUME NEW f \in Fronts, NEW e \in Engines, NEW m \in ToSet(toEngine'[f, e]), m.type = "add"
      PROVE  m.wave <= cWave'
    <2>1. m \in ToSet(toEngine[f, e]) => m.wave \in Nat /\ m.wave <= cWave
        BY <1>5, MessageWaves DEF WavesAgree
    <2> QED BY AtMost, <1>2, <1>5, <2>1
<1>6. ASSUME NEW e \in Engines, NEW m \in ToSet(starts'[e]) PROVE m.wave <= cWave'
    <2>1. m \in ToSet(starts[e]) => m.wave \in Nat /\ m.wave <= cWave
        BY MessageWaves DEF WavesAgree
    <2> QED BY AtMost, <1>2, <1>6, <2>1
<1>7. ASSUME NEW e \in Engines, NEW m \in ToSet(toCoord'[e])
      PROVE  IF m.type = "start" THEN m.wave <= n ELSE m.wave < n
    <2>1. m \in ToSet(toCoord[e]) =>
             m.wave \in Nat /\ IF m.type = "start" THEN m.wave <= Now ELSE m.wave < Now
        BY MessageWaves DEF WavesAgree
    <2> QED BY AtMost, <1>2, <1>7, <2>1
<1> QED BY <1>3, <1>4, <1>5, <1>6, <1>7 DEF WavesAgree, Same

\* What the coordinator receives from an engine.
LEMMA CoordHead ==
    ASSUME Types, WavesAgree, NEW e \in Engines, toCoord[e] # <<>>,
           toCoord' = [toCoord EXCEPT ![e] = Tail(@)]
    PROVE  /\ Head(toCoord[e]) \in ToSet(toCoord[e]) /\ Head(toCoord[e]).wave \in Nat
           /\ IF Head(toCoord[e]).type = "start" THEN Head(toCoord[e]).wave <= Now
                                                 ELSE Head(toCoord[e]).wave < Now
           /\ \A d \in Engines : ToSet(toCoord'[d]) \subseteq ToSet(toCoord[d])
           /\ \A d \in Engines : \A m \in ToSet(toCoord[d]) :
                 m \in ToSet(toCoord'[d]) \/ (d = e /\ m = Head(toCoord[e]))
<1> DEFINE S == [type : {"start", "complete"}, wave : Nat]
<1>1. toCoord \in [Engines -> Seq(S)]
    BY DEF Types, ChannelTypes
<1> HIDE DEF S
<1>2. /\ Head(toCoord[e]) \in ToSet(toCoord[e])
      /\ ToSet(Tail(toCoord[e])) \subseteq ToSet(toCoord[e])
      /\ ToSet(toCoord[e]) \subseteq {Head(toCoord[e])} \cup ToSet(Tail(toCoord[e]))
    BY <1>1, TailSet
<1>3. \A d \in Engines : toCoord'[d] = IF d = e THEN Tail(toCoord[e]) ELSE toCoord[d]
    BY <1>1
<1>4. /\ \A d \in Engines : ToSet(toCoord'[d]) \subseteq ToSet(toCoord[d])
      /\ \A d \in Engines : \A m \in ToSet(toCoord[d]) :
            m \in ToSet(toCoord'[d]) \/ (d = e /\ m = Head(toCoord[e]))
    BY <1>2, <1>3
<1>5. /\ Head(toCoord[e]).wave \in Nat
      /\ IF Head(toCoord[e]).type = "start" THEN Head(toCoord[e]).wave <= Now
                                            ELSE Head(toCoord[e]).wave < Now
    BY <1>2, MessageWaves DEF WavesAgree
<1> QED BY <1>2, <1>4, <1>5

\* The coordinator's wave only grows, up to that of the engines, and it tells
\* everybody the wave it is in.
LEMMA CoordWaves ==
    ASSUME Types, WavesAgree, CoordStep
    PROVE  /\ cWave' \in Nat /\ cWave <= cWave' /\ cWave' <= Now
           /\ \A f \in Fronts : \A m \in ToSet(news'[f]) :
                 \/ m \in ToSet(news[f])
                 \/ m.wave = cWave' /\ (m.running => cRunning')
           /\ \A e \in Engines :
                 /\ \A m \in ToSet(starts'[e]) :
                       m \in ToSet(starts[e]) \/ (m.wave = cWave' /\ cRunning')
                 /\ ToSet(toCoord'[e]) \subseteq ToSet(toCoord[e])
<1>1. cWave \in Nat /\ Now \in Nat /\ cWave <= Now
    BY MessageWaves DEF WavesAgree
<1>2. -1 \in Engines \cup {-1} /\ Engines \subseteq Engines \cup {-1}
    OBVIOUS
<1>3. ASSUME NEW w \in Nat, NEW x \in Engines \cup {-1},
             cWave' = w, cRunning', starts' = Start(w, x), news' = Publish(w, TRUE)
      PROVE  /\ \A f \in Fronts : \A m \in ToSet(news'[f]) :
                   \/ m \in ToSet(news[f])
                   \/ m.wave = cWave' /\ (m.running => cRunning')
             /\ \A e \in Engines : \A m \in ToSet(starts'[e]) :
                   m \in ToSet(starts[e]) \/ (m.wave = cWave' /\ cRunning')
    <2>1. \A f \in Fronts : ToSet(news'[f]) = ToSet(news[f]) \cup {[wave |-> w, running |-> TRUE]}
        BY <1>3, PublishFacts
    <2>2. \A e \in Engines : ToSet(starts'[e]) = ToSet(starts[e]) \cup {[wave |-> w, exclude |-> x]}
        BY <1>3, StartFacts
    <2>3. /\ \A m : m = [wave |-> w, running |-> TRUE] => m.wave = w
          /\ \A m : m = [wave |-> w, exclude |-> x] => m.wave = w
        OBVIOUS
    <2>4. \A f \in Fronts : \A m \in ToSet(news'[f]) : m \in ToSet(news[f]) \/ m.wave = cWave'
        BY <1>3, <2>1, <2>3
    <2>5. \A e \in Engines : \A m \in ToSet(starts'[e]) : m \in ToSet(starts[e]) \/ m.wave = cWave'
        BY <1>3, <2>2, <2>3
    <2> QED BY <1>3, <2>4, <2>5, Zenon
<1>4. ASSUME NEW f \in Fronts, CoordWake(f)
      PROVE  /\ cWave' = cWave /\ toCoord' = toCoord
             /\ \A g \in Fronts : \A m \in ToSet(news'[g]) :
                   \/ m \in ToSet(news[g])
                   \/ m.wave = cWave' /\ (m.running => cRunning')
             /\ \A e \in Engines : \A m \in ToSet(starts'[e]) :
                   m \in ToSet(starts[e]) \/ (m.wave = cWave' /\ cRunning')
    <2>1. cWave' = cWave /\ toCoord' = toCoord
        BY <1>4 DEF CoordWake
    <2>2. CASE cRunning
        BY <1>4, <2>1, <2>2 DEF CoordWake
    <2>3. CASE ~cRunning
        <3>1. cRunning' /\ starts' = Start(cWave, -1) /\ news' = Publish(cWave, TRUE)
            BY <1>4, <2>3 DEF CoordWake
        <3> QED BY <1>1, <1>2, <1>3, <2>1, <3>1
    <2> QED BY <2>1, <2>2, <2>3
<1>5. ASSUME NEW e \in Engines, CoordComplete(e)
      PROVE  /\ cWave' \in Nat /\ cWave <= cWave' /\ cWave' <= Now /\ starts' = starts
             /\ \A d \in Engines : ToSet(toCoord'[d]) \subseteq ToSet(toCoord[d])
             /\ \A g \in Fronts : \A m \in ToSet(news'[g]) :
                   \/ m \in ToSet(news[g])
                   \/ m.wave = cWave' /\ (m.running => cRunning')
    <2> DEFINE w == Head(toCoord[e]).wave
    <2>1. /\ toCoord[e] # <<>> /\ Head(toCoord[e]).type = "complete"
          /\ toCoord' = [toCoord EXCEPT ![e] = Tail(@)] /\ starts' = starts
          /\ \/ cWave <= w /\ cWave' = w + 1 /\ news' = Publish(w + 1, FALSE)
             \/ UNCHANGED <<cWave, news>>
        BY <1>5 DEF CoordComplete, coordVars
    <2>2. /\ w \in Nat /\ w < Now
          /\ \A d \in Engines : ToSet(toCoord'[d]) \subseteq ToSet(toCoord[d])
        BY <2>1, CoordHead
    <2> HIDE DEF w
    <2>3. CASE UNCHANGED <<cWave, news>>
        <3>1. cWave' \in Nat /\ cWave <= cWave' /\ cWave' <= Now
            BY <1>1, <2>3
        <3> QED BY <2>1, <2>2, <2>3, <3>1
    <2>4. CASE cWave <= w /\ cWave' = w + 1 /\ news' = Publish(w + 1, FALSE)
        <3>1. w + 1 \in Nat /\ cWave <= w + 1 /\ w + 1 <= Now
            BY <1>1, <2>2, <2>4
        <3>2. \A g \in Fronts : ToSet(news'[g]) =
                 ToSet(news[g]) \cup {[wave |-> w + 1, running |-> FALSE]}
            BY <2>4, <3>1, PublishFacts
        <3>3. \A m : m = [wave |-> w + 1, running |-> FALSE] => m.wave = w + 1 /\ ~m.running
            OBVIOUS
        <3>4. \A g \in Fronts : \A m \in ToSet(news'[g]) :
                   \/ m \in ToSet(news[g])
                   \/ m.wave = cWave' /\ (m.running => cRunning')
            BY <2>4, <3>2, <3>3
        <3> QED BY <2>1, <2>2, <2>4, <3>1, <3>4
    <2> QED BY <2>1, <2>3, <2>4
<1>6. ASSUME NEW e \in Engines, CoordStart(e)
      PROVE  /\ cWave' \in Nat /\ cWave <= cWave' /\ cWave' <= Now
             /\ \A d \in Engines : ToSet(toCoord'[d]) \subseteq ToSet(toCoord[d])
             /\ \A g \in Fronts : \A m \in ToSet(news'[g]) :
                   \/ m \in ToSet(news[g])
                   \/ m.wave = cWave' /\ (m.running => cRunning')
             /\ \A d \in Engines : \A m \in ToSet(starts'[d]) :
                   m \in ToSet(starts[d]) \/ (m.wave = cWave' /\ cRunning')
    <2> DEFINE w == Head(toCoord[e]).wave
    <2>1. /\ toCoord[e] # <<>> /\ Head(toCoord[e]).type = "start"
          /\ toCoord' = [toCoord EXCEPT ![e] = Tail(@)]
          /\ \/ /\ StartsWave(w) /\ cWave' = w /\ cRunning' = TRUE
                /\ starts' = Start(w, e) /\ news' = Publish(w, TRUE)
             \/ UNCHANGED <<cWave, news, starts>>
        BY <1>6 DEF CoordStart, coordVars
    <2>2. /\ w \in Nat /\ w <= Now
          /\ \A d \in Engines : ToSet(toCoord'[d]) \subseteq ToSet(toCoord[d])
        BY <2>1, CoordHead
    <2> HIDE DEF w
    <2>3. CASE UNCHANGED <<cWave, news, starts>>
        BY <1>1, <2>2, <2>3
    <2>4. CASE /\ StartsWave(w) /\ cWave' = w /\ cRunning' = TRUE
               /\ starts' = Start(w, e) /\ news' = Publish(w, TRUE)
        <3>1. cWave <= w
            BY <1>1, <2>2, <2>4 DEF StartsWave
        <3> QED BY <1>2, <1>3, <2>2, <2>4, <3>1
    <2> QED BY <2>1, <2>3, <2>4
<1>7. cWave <= cWave
    BY <1>1
<1> QED BY <1>1, <1>4, <1>5, <1>6, <1>7 DEF CoordStep

\* What a step sends to an engine: a request in the wave its front end knows of,
\* or something without a wave.
LEMMA ClientSends ==
    ASSUME Types, ClientStep \/ ResumeGeneration
    PROVE  /\ cWave' = cWave /\ cRunning' = cRunning /\ fWave' = fWave /\ news' = news
           /\ starts' = starts /\ toCoord' = toCoord
           /\ \A f \in Fronts, e \in Engines : \A m \in ToSet(toEngine'[f, e]) :
                 \/ m \in ToSet(toEngine[f, e])
                 \/ m.type # "add"
                 \/ m.wave = fWave[f] /\ m.type = "add" /\ (fRunning[f] \/ first'[f] > 0)
<1>1. /\ cWave' = cWave /\ cRunning' = cRunning /\ fWave' = fWave /\ news' = news
      /\ starts' = starts /\ toCoord' = toCoord
    BY DEF ClientStep, AddRequest, AbortRequest, PauseGeneration, ResumeGeneration, coordVars,
           frontVars
<1> DEFINE Sent == \A f \in Fronts, e \in Engines : \A m \in ToSet(toEngine'[f, e]) :
                      \/ m \in ToSet(toEngine[f, e])
                      \/ m.type # "add"
                      \/ m.wave = fWave[f] /\ m.type = "add" /\ (fRunning[f] \/ first'[f] > 0)
<1>2. ASSUME NEW m \in Inputs, m.type # "add", toEngine' = Call(m) PROVE Sent
    <2>1. \A f \in Fronts, e \in Engines :
             ToSet(toEngine'[f, e]) \subseteq ToSet(toEngine[f, e]) \cup {m}
        BY <1>2, CallFacts
    <2> QED BY <1>2, <2>1
<1>3. ASSUME NEW r \in Requests, NEW d \in Targets[r],
             AddRequest(FrontOf[r], d, r) \/ AbortRequest(FrontOf[r], d, r)
      PROVE  Sent
    <2> DEFINE g == FrontOf[r]
    <2>1. g \in Fronts /\ d \in Engines
        BY ConfigFacts DEF Types, OtherTypes
    <2> HIDE DEF g
    <2>2. CASE AddRequest(g, d, r)
        <3> DEFINE a == [type |-> "add", req |-> r, wave |-> fWave[g]]
        <3>1. fWave[g] \in Nat /\ first \in [Fronts -> Nat]
            BY <2>1 DEF Types, OtherTypes
        <3>2. a \in Inputs /\ a.wave = fWave[g] /\ a.type = "add"
            BY <3>1 DEF Inputs, Adds
        <3>3. toEngine' = [toEngine EXCEPT ![<<g, d>>] = Append(@, a)]
            BY <2>2 DEF AddRequest
        <3> HIDE DEF a
        <3>4. \A f \in Fronts, e \in Engines :
                 /\ <<f, e>> # <<g, d>> => toEngine'[f, e] = toEngine[f, e]
                 /\ ToSet(toEngine'[f, e]) \subseteq ToSet(toEngine[f, e]) \cup {a}
            BY <2>1, <3>2, <3>3, SendFacts
        <3>5. fRunning[g] \/ first'[g] > 0
            BY <2>1, <2>2, <3>1 DEF AddRequest
        <3>6. ASSUME NEW f \in Fronts, NEW e \in Engines, NEW m \in ToSet(toEngine'[f, e]),
                     m \notin ToSet(toEngine[f, e])
              PROVE  m = a /\ f = g
            <4>1. <<f, e>> = <<g, d>>
                BY <3>4, <3>6
            <4> QED BY <3>4, <3>6, <4>1
        <3> QED BY <3>2, <3>5, <3>6
    <2>3. CASE AbortRequest(g, d, r)
        <3> DEFINE a == [type |-> "abort", req |-> r]
        <3>1. a \in Inputs /\ a.type # "add"
            BY DEF Inputs
        <3>2. toEngine' = [toEngine EXCEPT ![<<g, d>>] = Append(@, a)]
            BY <2>3 DEF AbortRequest
        <3> HIDE DEF a
        <3>3. \A f \in Fronts, e \in Engines :
                 ToSet(toEngine'[f, e]) \subseteq ToSet(toEngine[f, e]) \cup {a}
            <4>1. g \in Fronts /\ d \in Engines /\ a \in Inputs
                BY <2>1, <3>1
            <4> HIDE DEF g
            <4> QED BY <3>2, <4>1, SendFacts, ZenonT(60)
        <3> QED BY <3>1, <3>3
    <2> QED BY <1>3, <2>2, <2>3 DEF g
<1>4. CASE PauseGeneration
    <2>1. PICK k \in Modes : toEngine' = Call([type |-> "pause", mode |-> k])
        BY <1>4 DEF PauseGeneration
    <2>2. [type |-> "pause", mode |-> k] \in Inputs
        BY DEF Inputs
    <2> QED BY <1>1, <1>2, <2>1, <2>2
<1>5. CASE ResumeGeneration
    <2>1. [type |-> "resume"] \in Inputs
        BY DEF Inputs
    <2> QED BY <1>1, <1>2, <1>5, <2>1 DEF ResumeGeneration
<1> QED BY <1>1, <1>3, <1>4, <1>5 DEF ClientStep

\* What an engine sends to the coordinator: the wave it is in, or, if it is the
\* first, the wave that is over.
LEMMA EngineSends ==
    ASSUME Types, WavesAgree, NEW e \in Engines,
           EndLoop(e) \/ \E f \in Fronts : HandleAdd(f, e)
    PROVE  \A d \in Engines : \A m \in ToSet(toCoord'[d]) :
              \/ m \in ToSet(toCoord[d])
              \/ /\ m.type = "start" /\ m.wave = Now /\ d = e
                 /\ pc[e] = "poll" /\ running'[e]
              \/ m.type = "complete" /\ m.wave < Now
<1> DEFINE S == [type : {"start", "complete"}, wave : Nat]
<1>1. /\ toCoord \in [Engines -> Seq(S)] /\ wave \in [Engines -> Nat]
      /\ running \in [Engines -> BOOLEAN] /\ 0 \in Engines
    BY ConfigFacts DEF Types, EngineTypes, ChannelTypes, OtherTypes
<1>2. ASSUME NEW c \in Engines, NEW m \in S, toCoord' = [toCoord EXCEPT ![c] = Append(@, m)]
      PROVE  \A d \in Engines : \A x \in ToSet(toCoord'[d]) :
                x \in ToSet(toCoord[d]) \/ (x = m /\ d = c)
    <2> HIDE DEF S
    <2>1. ToSet(Append(toCoord[c], m)) = ToSet(toCoord[c]) \cup {m}
        BY <1>1, AppendSet
    <2>2. \A d \in Engines : toCoord'[d] = IF d = c THEN Append(toCoord[c], m) ELSE toCoord[d]
        BY <1>1, <1>2
    <2> QED BY <2>1, <2>2
<1>3. ASSUME NEW f \in Fronts, HandleAdd(f, e)
      PROVE  \A d \in Engines : \A m \in ToSet(toCoord'[d]) :
                \/ m \in ToSet(toCoord[d])
                \/ /\ m.type = "start" /\ m.wave = Now /\ d = e
                   /\ pc[e] = "poll" /\ running'[e]
    <2> DEFINE m == [type |-> "start", wave |-> wave[e]]
    <2>1. m \in S /\ m.type = "start" /\ m.wave = wave[e]
        BY <1>1
    <2>2. \/ toCoord' = toCoord
          \/ /\ running' = [running EXCEPT ![e] = TRUE]
             /\ toCoord' = [toCoord EXCEPT ![e] = Append(@, m)]
        BY <1>3 DEF HandleAdd
    <2>3. pc[e] = "poll" /\ wave[e] = Now
        BY <1>3, AddKeepsWave
    <2> HIDE DEF m, S
    <2>4. CASE toCoord' = toCoord
        BY <2>4
    <2>5. CASE /\ running' = [running EXCEPT ![e] = TRUE]
               /\ toCoord' = [toCoord EXCEPT ![e] = Append(@, m)]
        <3>1. running'[e]
            BY <1>1, <2>5
        <3> QED BY <1>2, <2>1, <2>3, <2>5, <3>1
    <2> QED BY <2>2, <2>4, <2>5
<1>4. CASE EndLoop(e)
    <2> DEFINE m == [type |-> "complete", wave |-> wave[0]]
    <2>1. m \in S /\ m.type = "complete" /\ m.wave = wave[0]
        BY <1>1
    <2>2. \/ toCoord' = toCoord
          \/ e = 0 /\ ~reduced.unfinished /\ toCoord' = [toCoord EXCEPT ![0] = Append(@, m)]
        BY <1>4 DEF EndLoop
    <2> HIDE DEF m, S
    <2>3. CASE toCoord' = toCoord
        BY <2>3
    <2>4. CASE e = 0 /\ ~reduced.unfinished /\ toCoord' = [toCoord EXCEPT ![0] = Append(@, m)]
        <3>1. pc[0] = "synced"
            BY <1>4, <2>4 DEF EndLoop
        <3>2. Now = wave[0] + 1
            BY <2>4, <3>1 DEF Now, Current, Over
        <3>3. wave[0] < Now
            BY <1>1, <3>2
        <3> QED BY <1>1, <1>2, <2>1, <2>4, <3>3
    <2> QED BY <2>2, <2>3, <2>4
<1> QED BY <1>3, <1>4

LEMMA WavesAgreeKept ==
    ASSUME Types, WavesAgree, [Next]_vars
    PROVE  WavesAgree'
<1>1. /\ Same /\ 0 \in Engines /\ cWave \in Nat /\ Now \in Nat /\ cWave' \in Nat
      /\ cWave <= Now /\ \A e \in Engines : Current(e) = Now
    BY NextSame, ConfigFacts, MessageWaves, StepTypes DEF Types, OtherTypes, WavesAgree
<1> DEFINE n == Now'
<1>2. n \in Nat /\ n >= Now /\ \A e \in Engines : Current(e)' = n
    <2>1. CASE Now' = Now /\ \A e \in Engines : Current(e)' = Current(e)
        BY <1>1, <2>1
    <2>2. CASE Now' = Now + 1 /\ \A e \in Engines : Current(e)' = Current(e) + 1
        <3>1. Now + 1 \in Nat /\ Now + 1 >= Now
            BY <1>1
        <3>2. \A e \in Engines : Current(e)' = Now'
            BY <1>1, <2>2
        <3> QED BY <2>2, <3>1, <3>2
    <2> QED BY <2>1, <2>2, WaveStep
<1>3. Now' = n
    OBVIOUS
<1> HIDE DEF n
<1>0. cWave <= cWave /\ cWave <= n /\ cWave \in Nat
    BY <1>1, <1>2, AtMost
<1>4. ASSUME cWave' = cWave, fWave' = fWave, news' = news,
             \A f \in Fronts, e \in Engines : \A m \in ToSet(toEngine'[f, e]) :
                m \in ToSet(toEngine[f, e]) \/ m.type # "add",
             \A e \in Engines : ToSet(starts'[e]) \subseteq ToSet(starts[e]),
             \A e \in Engines : \A m \in ToSet(toCoord'[e]) :
                \/ m \in ToSet(toCoord[e])
                \/ m.type = "start" /\ m.wave = Now
                \/ m.type = "complete" /\ m.wave < Now
      PROVE  WavesAgree'
    <2>1. cWave <= cWave' /\ cWave' <= n
        BY <1>0, <1>4
    <2>2. \A e \in Engines : \A m \in ToSet(toCoord'[e]) :
             \/ m \in ToSet(toCoord[e])
             \/ IF m.type = "start" THEN m.wave <= n ELSE m.wave < n
        <3> SUFFICES ASSUME NEW e \in Engines, NEW m \in ToSet(toCoord'[e]),
                            m \notin ToSet(toCoord[e])
                     PROVE  IF m.type = "start" THEN m.wave <= n ELSE m.wave < n
            OBVIOUS
        <3>1. m.wave \in Nat
            <4>1. Types'
                BY StepTypes
            <4> DEFINE S == [type : {"start", "complete"}, wave : Nat]
            <4>2. toCoord'[e] \in Seq(S)
                BY <1>1, <4>1 DEF Types, ChannelTypes, Same
            <4> HIDE DEF S
            <4>3. m \in S
                BY <4>2, ElementIn
            <4> QED BY <4>3 DEF S
        <3>2. (m.type = "start" /\ m.wave = Now) \/ (m.type = "complete" /\ m.wave < Now)
            BY <1>4
        <3> QED BY <1>1, <1>2, <3>1, <3>2
    <2> QED BY <1>1, <1>2, <1>3, <1>4, <2>1, <2>2, WavesAgreeIf
<1>5. CASE UNCHANGED vars
    BY <1>4, <1>5 DEF vars, coordVars, frontVars, channels
<1>6. ASSUME NEW f \in Fronts, FrontStep(f) PROVE WavesAgree'
    <2>1. CASE SendFirst(f)
        BY <1>4, <2>1 DEF SendFirst, coordVars
    <2>2. CASE ReadNews(f)
        <3> DEFINE S == [wave : Nat, running : BOOLEAN]
        <3>1. /\ news \in [Fronts -> Seq(S)] /\ news[f] # <<>> /\ fWave \in [Fronts -> Nat]
              /\ news' = [news EXCEPT ![f] = Tail(@)]
              /\ fWave' = [fWave EXCEPT ![f] = Head(news[f]).wave]
              /\ UNCHANGED <<cWave, toEngine, starts, toCoord>>
            BY <2>2 DEF Types, OtherTypes, ReadNews, coordVars, channels
        <3> HIDE DEF S
        <3>2. Head(news[f]) \in ToSet(news[f]) /\ ToSet(Tail(news[f])) \subseteq ToSet(news[f])
            BY <3>1, TailSet
        <3>3. Head(news[f]).wave <= cWave
            BY <3>2 DEF WavesAgree
        <3>4. \A g \in Fronts :
                 /\ fWave'[g] = fWave[g] \/ fWave'[g] <= cWave'
                 /\ \A m \in ToSet(news'[g]) : m \in ToSet(news[g]) \/ m.wave <= cWave'
            BY <3>1, <3>2, <3>3
        <3>5. cWave <= cWave' /\ cWave' <= n
            BY <1>1, <1>2, <3>1
        <3> QED BY <1>1, <1>2, <1>3, <3>1, <3>4, <3>5, WavesAgreeIf
    <2> QED BY <1>6, <2>1, <2>2 DEF FrontStep
<1>7. CASE CoordStep
    <2>1. fWave' = fWave /\ toEngine' = toEngine
        BY <1>7 DEF CoordStep, CoordWake, CoordComplete, CoordStart
    <2>2. /\ cWave <= cWave' /\ cWave' <= Now
          /\ \A f \in Fronts : \A m \in ToSet(news'[f]) :
                m \in ToSet(news[f]) \/ m.wave = cWave'
          /\ \A e \in Engines :
                /\ \A m \in ToSet(starts'[e]) : m \in ToSet(starts[e]) \/ m.wave = cWave'
                /\ ToSet(toCoord'[e]) \subseteq ToSet(toCoord[e])
        BY <1>7, CoordWaves
    <2>3. cWave' <= n /\ cWave' <= cWave'
        BY <1>1, <1>2, <2>2
    <2>4. \A f \in Fronts : \A m \in ToSet(news'[f]) : m \in ToSet(news[f]) \/ m.wave <= cWave'
        BY <2>2, <2>3
    <2>5. \A e \in Engines :
                /\ \A m \in ToSet(starts'[e]) : m \in ToSet(starts[e]) \/ m.wave <= cWave'
                /\ \A m \in ToSet(toCoord'[e]) : m \in ToSet(toCoord[e])
        BY <2>2, <2>3
    <2> QED BY <1>1, <1>2, <1>3, <2>1, <2>2, <2>3, <2>4, <2>5, WavesAgreeIf
<1>8. ASSUME NEW e \in Engines, HandleStart(e) \/ Begin(e) \/ EndLoop(e) \/ PauseDone(e)
      PROVE  WavesAgree'
    <2>1. UNCHANGED <<cWave, fWave, news, toEngine>>
        BY <1>8 DEF HandleStart, Begin, EndLoop, PauseDone, coordVars, frontVars, channels
    <2>2. \A d \in Engines : ToSet(starts'[d]) \subseteq ToSet(starts[d])
        <3>1. CASE HandleStart(e)
            <4> DEFINE S == [wave : Nat, exclude : Engines \cup {-1}]
            <4>1. starts \in [Engines -> Seq(S)] /\ starts' = [starts EXCEPT ![e] = Tail(@)]
                  /\ starts[e] # <<>>
                BY <3>1 DEF HandleStart, Types, ChannelTypes
            <4> HIDE DEF S
            <4>2. ToSet(Tail(starts[e])) \subseteq ToSet(starts[e])
                BY <4>1, TailSet
            <4> QED BY <4>1, <4>2
        <3>2. CASE Begin(e) \/ EndLoop(e) \/ PauseDone(e)
            BY <3>2 DEF Begin, EndLoop, PauseDone, channels
        <3> QED BY <1>8, <3>1, <3>2
    <2>3. \A d \in Engines : \A m \in ToSet(toCoord'[d]) :
             \/ m \in ToSet(toCoord[d])
             \/ m.type = "start" /\ m.wave = Now
             \/ m.type = "complete" /\ m.wave < Now
        <3>1. CASE EndLoop(e)
            BY <3>1, EngineSends
        <3>2. CASE HandleStart(e) \/ Begin(e) \/ PauseDone(e)
            BY <3>2 DEF HandleStart, Begin, PauseDone, channels
        <3> QED BY <1>8, <3>1, <3>2
    <2> QED BY <1>4, <2>1, <2>2, <2>3
<1>9. ASSUME NEW e \in Engines, NEW f \in Fronts, HandleInput(f, e) PROVE WavesAgree'
    <2>1. UNCHANGED <<cWave, fWave, news, starts>>
        BY <1>9 DEF HandleInput, HandleAdd, HandleAbort, HandlePause, HandleResume, coordVars,
                    frontVars
    <2>2. \A g \in Fronts, d \in Engines : \A m \in ToSet(toEngine'[g, d]) :
             m \in ToSet(toEngine[g, d])
        BY <1>9, TakeFacts DEF HandleInput, HandleAdd, HandleAbort, HandlePause, HandleResume
    <2>3. \A d \in Engines : \A m \in ToSet(toCoord'[d]) :
             \/ m \in ToSet(toCoord[d])
             \/ m.type = "start" /\ m.wave = Now
             \/ m.type = "complete" /\ m.wave < Now
        <3>1. CASE HandleAdd(f, e)
            BY <3>1, EngineSends
        <3>2. CASE HandleAbort(f, e) \/ HandlePause(f, e) \/ HandleResume(f, e)
            BY <3>2 DEF HandleAbort, HandlePause, HandleResume
        <3> QED BY <1>9, <3>1, <3>2 DEF HandleInput
    <2> QED BY <1>4, <2>1, <2>2, <2>3
<1>10. CASE Collective
    BY <1>4, <1>10, CollectiveCases DEF Forward, AllReduce, ResumeBarrier, coordVars, frontVars,
                                        channels
<1>11. CASE ClientStep \/ ResumeGeneration
    <2>1. /\ cWave' = cWave /\ fWave' = fWave /\ news' = news
          /\ starts' = starts /\ toCoord' = toCoord
          /\ \A f \in Fronts, e \in Engines : \A m \in ToSet(toEngine'[f, e]) :
                 m \in ToSet(toEngine[f, e]) \/ m.type # "add" \/ m.wave = fWave[f]
        BY <1>11, ClientSends
    <2>2. cWave <= cWave' /\ cWave' <= n
        BY <1>0, <2>1
    <2>3. \A f \in Fronts, e \in Engines : \A m \in ToSet(toEngine'[f, e]) :
                 m \in ToSet(toEngine[f, e]) \/ (m.type = "add" => m.wave <= cWave')
        BY <2>1 DEF WavesAgree
    <2> QED BY <1>1, <1>2, <1>3, <2>1, <2>2, <2>3, WavesAgreeIf
<1> QED BY <1>5, <1>6, <1>7, <1>8, <1>9, <1>10, <1>11 DEF Next, EngineStep

LEMMA InitWaves ==
    ASSUME Init
    PROVE  WavesAgree /\ StepsAgree
<1>1. config \in Configs /\ 0 \in Engines /\ Pauser \in Fronts
    BY ConfigFacts DEF Init
<1>2. \A e \in Engines : /\ Current(e) = 0 /\ pc[e] = "poll" /\ step[e] = 0
                         /\ starts[e] = <<>> /\ toCoord[e] = <<>>
    BY DEF Init, Current, Over
<1>3. /\ cWave = 0 /\ \A f \in Fronts : fWave[f] = 0 /\ news[f] = <<>>
      /\ \A f \in Fronts, e \in Engines : toEngine[f, e] = <<>>
    BY DEF Init
<1>4. ToSet(<<>>) = {}
    BY DEF ToSet
<1>5. Now = 0
    BY <1>1, <1>2 DEF Now
<1>6. WavesAgree
    <2>1. /\ \A e \in Engines : ToSet(starts[e]) = {} /\ ToSet(toCoord[e]) = {}
          /\ \A f \in Fronts : ToSet(news[f]) = {}
          /\ \A f \in Fronts, e \in Engines : ToSet(toEngine[f, e]) = {}
        BY <1>2, <1>3, <1>4
    <2>2. cWave <= Now /\ \A f \in Fronts : fWave[f] <= cWave
        <3>1. 0 <= 0
            OBVIOUS
        <3> QED BY <1>3, <1>5, <3>1, Zenon
    <2>3. \A e \in Engines : Current(e) = Now
        BY <1>2, <1>5
    <2> QED BY <2>1, <2>2, <2>3 DEF WavesAgree
<1>7. StepsAgree
    BY <1>2 DEF StepsAgree
<1> QED BY <1>6, <1>7

\* Only the forward passes count, and in a deployment whose experts are not
\* replicated all engines make them together.
LEMMA StepsAgreeKept ==
    ASSUME Types, StepsAgree, [Next]_vars
    PROVE  StepsAgree'
<1>1. Same
    BY NextSame
<1>2. /\ pc \in [Engines -> States] /\ DOMAIN step = Engines
    BY DEF Types, EngineTypes
<1>3. ASSUME \A e \in Engines : step'[e] = step[e],
             \A e \in Engines : pc'[e] \in {"sync", "synced"} => pc[e] \in {"sync", "synced"}
      PROVE  StepsAgree'
    BY <1>1, <1>3 DEF StepsAgree, Same
<1>4. CASE UNCHANGED vars \/ (\E f \in Fronts : FrontStep(f)) \/ CoordStep \/ ClientStep
           \/ ResumeGeneration
    <2>1. step' = step /\ pc' = pc
        BY <1>4 DEF vars, engineVars, FrontStep, SendFirst, ReadNews, CoordStep, CoordWake,
                    CoordComplete, CoordStart, ClientStep, AddRequest, AbortRequest,
                    PauseGeneration, ResumeGeneration
    <2> QED BY <1>3, <2>1
<1>5. ASSUME NEW e \in Engines, NEW f \in Fronts, HandleInput(f, e) PROVE StepsAgree'
    <2>1. step' = step /\ (pc' = pc \/ pc' = [pc EXCEPT ![e] = "resume"])
        BY <1>5 DEF HandleInput, HandleAdd, HandleAbort, HandlePause, HandleResume
    <2> QED BY <1>2, <1>3, <2>1
<1>6. ASSUME NEW e \in Engines, HandleStart(e) \/ Begin(e) \/ PauseDone(e) PROVE StepsAgree'
    <2>1. step' = step /\ (pc' = pc \/ pc' = [pc EXCEPT ![e] = "forward"])
        BY <1>6 DEF HandleStart, Begin, PauseDone, engineVars
    <2> QED BY <1>2, <1>3, <2>1
<1>7. ASSUME NEW e \in Engines, EndLoop(e) PROVE StepsAgree'
    <2>1. /\ pc[e] = "synced" /\ pc' = [pc EXCEPT ![e] = "poll"]
          /\ step' = step \/ step' = [step EXCEPT ![e] = 0]
        BY <1>7 DEF EndLoop
    <2>2. step[e] = 0
        BY <2>1 DEF StepsAgree
    <2>3. \A d \in Engines : step'[d] = step[d]
        BY <1>2, <2>1, <2>2
    <2> QED BY <1>2, <1>3, <2>1, <2>3
<1>8. ASSUME NEW es \in SUBSET Engines, Forward(es), Replicated \/ es = Engines
      PROVE  StepsAgree'
    <2>1. /\ \A d \in Engines : step'[d] = IF d \in es THEN (step[d] + 1) % SyncEvery ELSE step[d]
          /\ \A d \in Engines : pc'[d] = IF d \notin es THEN pc[d]
                                         ELSE IF step'[d] = 0 THEN "sync" ELSE "poll"
        BY <1>8 DEF Forward
    <2>2. \A d \in Engines : pc'[d] \in {"sync", "synced"} => step'[d] = 0
        <3> SUFFICES ASSUME NEW d \in Engines, pc'[d] \in {"sync", "synced"} PROVE step'[d] = 0
            OBVIOUS
        <3>1. CASE d \in es
            BY <2>1, <3>1
        <3>2. CASE d \notin es
            <4>1. pc'[d] = pc[d] /\ step'[d] = step[d]
                BY <2>1, <3>2
            <4> QED BY <4>1 DEF StepsAgree
        <3> QED BY <3>1, <3>2
    <2>3. ASSUME ~Replicated PROVE \A c, d \in Engines : step'[c] = step'[d]
        <3>1. \A c, d \in Engines : step[c] = step[d]
            BY <2>3 DEF StepsAgree
        <3>2. \A d \in Engines : step'[d] = (step[d] + 1) % SyncEvery
            BY <1>8, <2>1, <2>3
        <3> QED
            <4> SUFFICES ASSUME NEW c \in Engines, NEW d \in Engines PROVE step'[c] = step'[d]
                OBVIOUS
            <4>1. step[c] = step[d]
                BY <3>1
            <4> QED BY <3>2, <4>1
    <2> QED BY <1>1, <2>2, <2>3 DEF StepsAgree, Same
<1>9. CASE AllReduce
    <2>1. /\ \A e \in Engines : pc[e] = "sync" /\ pc'[e] = "synced"
          /\ step' = step
        BY <1>9 DEF AllReduce
    <2> QED BY <1>3, <2>1
<1>10. CASE ResumeBarrier
    <2>1. (\A e \in Engines : pc'[e] = "poll") /\ step' = step
        BY <1>10 DEF ResumeBarrier
    <2> QED BY <1>3, <2>1
<1>11. CASE Collective
    <2>1. Engines \in SUBSET Engines /\ \A e \in Engines : {e} \in SUBSET Engines
        OBVIOUS
    <2>2. CASE IF Replicated THEN \E e \in Engines : Forward({e}) ELSE Forward(Engines)
        BY <1>8, <2>1, <2>2
    <2> QED BY <1>9, <1>10, <1>11, <2>2 DEF Collective
<1> QED BY <1>4, <1>5, <1>6, <1>7, <1>11 DEF Next, EngineStep

LEMMA AlignFollows ==
    ASSUME Types, WavesAgree, StepsAgree
    PROVE  WavesAlign
<1> SUFFICES ASSUME NEW at \in {"forward", "sync"}, \A e \in Engines : pc[e] = at,
                    NEW d \in Engines, NEW e \in Engines
             PROVE  wave[d] = wave[e] /\ (Replicated \/ step[d] = step[e])
    BY DEF WavesAlign
<1>1. pc[d] # "synced" /\ pc[e] # "synced"
    OBVIOUS
<1>2. Over(d) = FALSE /\ Over(e) = FALSE
    BY <1>1 DEF Over
<1>3. Current(d) = wave[d] /\ Current(e) = wave[e]
    <2>1. wave[d] \in Nat /\ wave[e] \in Nat
        BY DEF Types, EngineTypes
    <2> QED BY <1>2, <2>1 DEF Current
<1>4. Current(d) = Current(e)
    BY DEF WavesAgree
<1> QED BY <1>3, <1>4 DEF StepsAgree

-----------------------------------------------------------------------------
(* An answered pause stays quiet.                                          *)

\* The calls in a queue.
LEMMA QueueCalls ==
    ASSUME NEW S, NEW s \in Seq(S), NEW x \in S
    PROVE  /\ ~IsCall(x) /\ NoCall(s) => NoCall(Append(s, x))
           /\ \A t : ~IsCall(x) /\ OneCall(s, t) => OneCall(Append(s, x), t)
           /\ NoCall(s) => OneCall(Append(s, x), x.type)
<1> DEFINE u == Append(s, x)
<1>1. /\ ToSet(u) = ToSet(s) \cup {x} /\ Len(s) \in Nat
      /\ DOMAIN s = 1..Len(s) /\ DOMAIN u = 1..Len(s) + 1 /\ u[Len(s) + 1] = x
      /\ \A i \in 1..Len(s) : u[i] = s[i]
    BY AppendAt
<1> HIDE DEF u
<1>2. /\ \A i \in 1..Len(s) + 1 : i \in 1..Len(s) \/ i = Len(s) + 1
      /\ \A i \in 1..Len(s) : i \in 1..Len(s) + 1
      /\ Len(s) + 1 \in 1..Len(s) + 1
    BY <1>1
<1>3. ~IsCall(x) /\ NoCall(s) => NoCall(u)
    BY <1>1 DEF NoCall
<1>4. ASSUME NEW t, ~IsCall(x), OneCall(s, t) PROVE OneCall(u, t)
    <2>1. PICK i \in 1..Len(s) : s[i].type = t /\ \A j \in 1..Len(s) : IsCall(s[j]) => j = i
        BY <1>1, <1>4 DEF OneCall
    <2>2. i \in DOMAIN u /\ u[i].type = t
        BY <1>1, <1>2, <2>1
    <2>3. \A j \in DOMAIN u : IsCall(u[j]) => j = i
        BY <1>1, <1>2, <1>4, <2>1
    <2> QED BY <2>2, <2>3 DEF OneCall
<1>5. ASSUME NoCall(s) PROVE OneCall(u, x.type)
    <2>1. \A j \in 1..Len(s) : s[j] \in ToSet(s)
        BY <1>1 DEF ToSet
    <2>2. \A j \in 1..Len(s) : ~IsCall(u[j])
        BY <1>1, <1>5, <2>1 DEF NoCall
    <2>3. \A j \in DOMAIN u : IsCall(u[j]) => j = Len(s) + 1
        BY <1>1, <1>2, <2>2
    <2> QED BY <1>1, <1>2, <2>3 DEF OneCall
<1> QED BY <1>3, <1>4, <1>5 DEF u

LEMMA TailCalls ==
    ASSUME NEW S, NEW s \in Seq(S), s # <<>>
    PROVE  /\ NoCall(s) => NoCall(Tail(s)) /\ ~IsCall(Head(s))
           /\ \A t \in {"pause", "resume"} : OneCall(s, t) =>
                 /\ ~IsCall(Head(s)) => OneCall(Tail(s), t)
                 /\ IsCall(Head(s)) => Head(s).type = t /\ NoCall(Tail(s))
<1> DEFINE u == Tail(s)
<1>1. /\ ToSet(u) \subseteq ToSet(s) /\ Len(s) \in Nat
      /\ DOMAIN s = 1..Len(s) /\ DOMAIN u = 1..Len(s) - 1 /\ 1 \in 1..Len(s)
      /\ Head(s) = s[1] /\ Head(s) \in ToSet(s)
      /\ \A i \in 1..Len(s) - 1 : u[i] = s[i + 1]
    BY TailSet
<1> HIDE DEF u
<1>2. /\ \A i \in 1..Len(s) : i = 1 \/ (i - 1 \in 1..Len(s) - 1 /\ (i - 1) + 1 = i)
      /\ \A i \in 1..Len(s) - 1 : i + 1 \in 1..Len(s) /\ i + 1 # 1 /\ (i + 1) - 1 = i
    BY <1>1
<1>3. NoCall(s) => NoCall(u) /\ ~IsCall(Head(s))
    BY <1>1 DEF NoCall
<1>4. ASSUME NEW t \in {"pause", "resume"}, OneCall(s, t)
      PROVE  /\ ~IsCall(Head(s)) => OneCall(u, t)
             /\ IsCall(Head(s)) => Head(s).type = t /\ NoCall(u)
    <2>1. PICK i \in 1..Len(s) : s[i].type = t /\ \A j \in 1..Len(s) : IsCall(s[j]) => j = i
        BY <1>1, <1>4 DEF OneCall
    <2>2. ASSUME ~IsCall(Head(s)) PROVE OneCall(u, t)
        <3>1. IsCall(s[i])
            BY <2>1 DEF IsCall
        <3>2. i - 1 \in 1..Len(s) - 1 /\ (i - 1) + 1 = i
            BY <1>1, <1>2, <2>2, <3>1
        <3>3. i - 1 \in DOMAIN u /\ u[i - 1].type = t
            BY <1>1, <2>1, <3>2
        <3>4. ASSUME NEW j \in DOMAIN u, IsCall(u[j]) PROVE j = i - 1
            <4>1. j \in 1..Len(s) - 1 /\ u[j] = s[j + 1] /\ j + 1 \in 1..Len(s) /\ (j + 1) - 1 = j
                BY <1>1, <1>2
            <4>2. j + 1 = i
                BY <2>1, <3>4, <4>1
            <4> QED BY <4>1, <4>2
        <3> QED BY <3>3, <3>4 DEF OneCall
    <2>3. ASSUME IsCall(Head(s)) PROVE Head(s).type = t /\ NoCall(u)
        <3>1. i = 1
            BY <1>1, <2>1, <2>3
        <3>2. \A j \in 1..Len(s) - 1 : ~IsCall(u[j])
            BY <1>1, <1>2, <2>1, <3>1
        <3>3. \A m \in ToSet(u) : \E j \in 1..Len(s) - 1 : m = u[j]
            BY <1>1 DEF ToSet
        <3> QED BY <1>1, <2>1, <3>1, <3>2, <3>3 DEF NoCall
    <2> QED BY <2>2, <2>3
<1> QED BY <1>3, <1>4 DEF u

\* The calls that are on their way to e stay what they are.
CallsKept(e) ==
    /\ Uncalled(e) => Uncalled(e)'
    /\ \A t \in {"pause", "resume"} : Called(e, t) => Called(e, t)'

LEMMA SameQueues ==
    ASSUME Same, NEW e \in Engines, \A f \in Fronts : toEngine'[f, e] = toEngine[f, e]
    PROVE  CallsKept(e)
<1>1. Uncalled(e) => Uncalled(e)'
    BY DEF Same, Uncalled
<1>2. ASSUME NEW t \in {"pause", "resume"}, Called(e, t) PROVE Called(e, t)'
    BY <1>2 DEF Same, Called
<1> QED BY <1>1, <1>2 DEF CallsKept

\* The queue of one front end changes, and its calls do not.
LEMMA OneQueue ==
    ASSUME Same, NEW f \in Fronts, NEW e \in Engines,
           \A g \in Fronts \ {f} : toEngine'[g, e] = toEngine[g, e],
           NoCall(toEngine[f, e]) => NoCall(toEngine'[f, e]),
           \A t \in {"pause", "resume"} : OneCall(toEngine[f, e], t) => OneCall(toEngine'[f, e], t)
    PROVE  CallsKept(e)
<1>1. ASSUME Uncalled(e) PROVE Uncalled(e)'
    <2>1. \A g \in Fronts : NoCall(toEngine'[g, e])
        BY <1>1 DEF Uncalled
    <2> QED BY <2>1 DEF Uncalled, Same
<1>2. ASSUME NEW t \in {"pause", "resume"}, Called(e, t) PROVE Called(e, t)'
    <2>1. PICK h \in Fronts : /\ OneCall(toEngine[h, e], t)
                              /\ \A g \in Fronts \ {h} : NoCall(toEngine[g, e])
        BY <1>2 DEF Called
    <2>2. OneCall(toEngine'[h, e], t)
        BY <2>1
    <2>3. \A g \in Fronts \ {h} : NoCall(toEngine'[g, e])
        BY <2>1
    <2> QED BY <2>2, <2>3 DEF Called, Same
<1> QED BY <1>1, <1>2 DEF CallsKept

\* An engine takes a message.
LEMMA TakeCalls ==
    ASSUME Types, Same, NEW f \in Fronts, NEW e \in Engines,
           NEW type \in {"add", "abort", "pause", "resume"}, Take(f, e, type)
    PROVE  /\ \A d \in Engines \ {e} : CallsKept(d)
           /\ type \in {"add", "abort"} => CallsKept(e)
           /\ type \in {"pause", "resume"} =>
                 /\ ~Uncalled(e)
                 /\ \A t \in {"pause", "resume"} : Called(e, t) => t = type /\ Uncalled(e)'
<1> DEFINE s == toEngine[f, e]
<1>1. /\ s \in Seq(Inputs) /\ s # <<>> /\ Head(s).type = type /\ toEngine'[f, e] = Tail(s)
      /\ \A g \in Fronts, d \in Engines :
            <<g, d>> # <<f, e>> => toEngine'[g, d] = toEngine[g, d]
    <2>1. s \in Seq(Inputs) /\ s # <<>>
        BY DEF Types, ChannelTypes, Take
    <2>2. /\ Head(toEngine[f, e]).type = type /\ toEngine'[f, e] = Tail(toEngine[f, e])
          /\ \A g \in Fronts, d \in Engines :
                /\ <<g, d>> # <<f, e>> => toEngine'[g, d] = toEngine[g, d]
                /\ ToSet(toEngine'[g, d]) \subseteq ToSet(toEngine[g, d])
        BY TakeFacts, ZenonT(60)
    <2> QED BY <2>1, <2>2
<1> HIDE DEF s
<1>2. /\ NoCall(s) => NoCall(Tail(s)) /\ ~IsCall(Head(s))
      /\ \A t \in {"pause", "resume"} : OneCall(s, t) =>
            /\ ~IsCall(Head(s)) => OneCall(Tail(s), t)
            /\ IsCall(Head(s)) => Head(s).type = t /\ NoCall(Tail(s))
    BY <1>1, TailCalls
<1>3. ASSUME NEW d \in Engines \ {e} PROVE CallsKept(d)
    <2>1. \A g \in Fronts : toEngine'[g, d] = toEngine[g, d]
        BY <1>1
    <2> QED BY <2>1, SameQueues
<1>4. \A g \in Fronts \ {f} : toEngine'[g, e] = toEngine[g, e]
    BY <1>1
<1>5. ASSUME type \in {"add", "abort"} PROVE CallsKept(e)
    <2>1. ~IsCall(Head(s))
        BY <1>1, <1>5 DEF IsCall
    <2> QED BY <1>1, <1>2, <1>4, <2>1, OneQueue DEF s
<1>6. ASSUME type \in {"pause", "resume"}
      PROVE  /\ ~Uncalled(e)
             /\ \A t \in {"pause", "resume"} : Called(e, t) => t = type /\ Uncalled(e)'
    <2>1. IsCall(Head(s)) /\ ~NoCall(s)
        BY <1>1, <1>2, <1>6 DEF IsCall
    <2>2. ~Uncalled(e)
        BY <2>1 DEF Uncalled, s
    <2>3. ASSUME NEW t \in {"pause", "resume"}, Called(e, t) PROVE t = type /\ Uncalled(e)'
        <3>1. PICK h \in Fronts : /\ OneCall(toEngine[h, e], t)
                                  /\ \A g \in Fronts \ {h} : NoCall(toEngine[g, e])
            BY <2>3 DEF Called
        <3>2. h = f
            BY <2>1, <3>1 DEF s
        <3>3. t = type /\ NoCall(Tail(s))
            BY <1>1, <1>2, <2>1, <3>1, <3>2 DEF s
        <3>4. \A g \in Fronts : NoCall(toEngine'[g, e])
            BY <1>1, <1>4, <3>1, <3>2, <3>3
        <3> QED BY <3>3, <3>4 DEF Uncalled, Same
    <2> QED BY <2>2, <2>3
<1> QED BY <1>3, <1>5, <1>6

\* A client sends a request or an abort.
LEMMA SendCalls ==
    ASSUME Types, Same, NEW f \in Fronts, NEW e \in Engines, NEW m \in Inputs, ~IsCall(m),
           toEngine' = [toEngine EXCEPT ![<<f, e>>] = Append(@, m)]
    PROVE  \A d \in Engines : CallsKept(d)
<1> DEFINE s == toEngine[f, e]
<1>1. /\ s \in Seq(Inputs) /\ toEngine'[f, e] = Append(s, m)
      /\ \A g \in Fronts, d \in Engines :
            <<g, d>> # <<f, e>> => toEngine'[g, d] = toEngine[g, d]
    <2>1. s \in Seq(Inputs)
        BY DEF Types, ChannelTypes
    <2>2. /\ toEngine'[f, e] = Append(s, m)
          /\ \A g \in Fronts, d \in Engines :
                <<g, d>> # <<f, e>> => toEngine'[g, d] = toEngine[g, d]
        BY SendFacts
    <2> QED BY <2>1, <2>2
<1> HIDE DEF s
<1>2. /\ NoCall(s) => NoCall(Append(s, m))
      /\ \A t : OneCall(s, t) => OneCall(Append(s, m), t)
    BY <1>1, QueueCalls
<1>3. ASSUME NEW d \in Engines \ {e} PROVE CallsKept(d)
    <2>1. \A g \in Fronts : toEngine'[g, d] = toEngine[g, d]
        BY <1>1
    <2> QED BY <2>1, SameQueues
<1>4. \A g \in Fronts \ {f} : toEngine'[g, e] = toEngine[g, e]
    BY <1>1
<1>5. CallsKept(e)
    BY <1>1, <1>2, <1>4, OneQueue DEF s
<1> QED BY <1>3, <1>5

\* A client calls all engines.
LEMMA CallCalls ==
    ASSUME Types, Same, NEW m \in Inputs, toEngine' = Call(m), NEW e \in Engines, Uncalled(e)
    PROVE  Called(e, m.type)'
<1>1. /\ Pauser \in Fronts /\ toEngine[Pauser, e] \in Seq(Inputs)
      /\ toEngine'[Pauser, e] = Append(toEngine[Pauser, e], m)
      /\ \A g \in Fronts \ {Pauser} : toEngine'[g, e] = toEngine[g, e]
    BY CallFacts, ConfigFacts DEF Types, ChannelTypes, OtherTypes
<1>2. OneCall(toEngine'[Pauser, e], m.type)
    <2> DEFINE s == toEngine[Pauser, e]
    <2>1. s \in Seq(Inputs) /\ NoCall(s)
        BY <1>1 DEF Uncalled
    <2> HIDE DEF s
    <2>2. OneCall(Append(s, m), m.type)
        BY <2>1, QueueCalls
    <2> QED BY <1>1, <2>2 DEF s
<1>3. \A g \in Fronts \ {Pauser} : NoCall(toEngine'[g, e])
    BY <1>1 DEF Uncalled
<1> QED BY <1>1, <1>2, <1>3 DEF Called, Same

\* An engine that does nothing, while others work.
LEMMA EngineKept ==
    ASSUME Types, Same, NEW e \in Engines, Settling(e), Phase(e), CallsKept(e),
           pauses' = pauses, e \in calls' <=> e \in calls, Odd \/ calls' = calls,
           pc'[e] = pc[e], paused'[e] = paused[e], pending'[e] = pending[e],
           ignore'[e] = ignore[e], running'[e] = running[e],
           Unfinished(e) = {} => Unfinished(e)' = {},
           pc[e] = "synced" => reduced' = reduced
    PROVE  (Settling(e) /\ Phase(e))'
<1>1. Odd' <=> Odd
    BY DEF Odd
<1>2. Quiet(e) => Quiet(e)'
    BY DEF Quiet
<1>3. Settling(e)'
    <2>1. paused[e] # "no" => \/ pending'[e] /\ running'[e]
                              \/ ~pending'[e] /\ ignore'[e]
        BY DEF Settling
    <2>2. paused[e] = "no" => ~pending'[e] /\ ~ignore'[e]
        BY DEF Settling
    <2>3. ASSUME pc[e] = "synced"
          PROVE  /\ pending'[e] => reduced'.agreed \/ reduced'.unfinished
                 /\ reduced'.agreed => pending'[e]
        BY <2>3 DEF Settling
    <2>4. pc[e] = "resume" => paused[e] = "no" /\ ~Odd /\ calls' # {}
        BY DEF Settling
    <2> QED BY <1>1, <2>1, <2>2, <2>3, <2>4 DEF Settling
<1>4. Phase(e)'
    <2>1. CASE Odd
        BY <1>1, <1>2, <2>1 DEF Phase, CallsKept
    <2>2. CASE ~Odd /\ calls # {}
        BY <1>1, <1>2, <2>2 DEF Phase, CallsKept
    <2>3. CASE ~Odd /\ calls = {}
        BY <1>1, <2>3 DEF Phase, CallsKept
    <2> QED BY <2>1, <2>2, <2>3
<1> QED BY <1>3, <1>4

\* An engine in the middle of a step is in no phase that a step of it could end.
LEMMA EngineBusy ==
    ASSUME Types, Same, NEW e \in Engines, Settling(e), Phase(e), CallsKept(e),
           pauses' = pauses, calls' = calls, paused'[e] = paused[e],
           ~Quiet(e), pc[e] # "resume", pc'[e] # "resume",
           pc'[e] = "synced" =>
              /\ pending'[e] => reduced'.agreed \/ reduced'.unfinished
              /\ reduced'.agreed => pending'[e],
           paused[e] # "no" => \/ pending'[e] /\ running'[e]
                               \/ ~pending'[e] /\ ignore'[e],
           paused[e] = "no" => ~pending'[e] /\ ~ignore'[e]
    PROVE  (Settling(e) /\ Phase(e))'
<1>1. Odd' <=> Odd
    BY DEF Odd
<1>2. Settling(e)'
    BY DEF Settling
<1>3. Phase(e)'
    <2>1. CASE Odd
        BY <1>1, <2>1 DEF Phase, CallsKept
    <2>2. CASE ~Odd /\ calls # {}
        BY <1>1, <2>2 DEF Phase, CallsKept
    <2>3. CASE ~Odd /\ calls = {}
        BY <1>1, <2>3 DEF Phase, CallsKept
    <2> QED BY <2>1, <2>2, <2>3
<1> QED BY <1>2, <1>3

\* Requests an engine has do not change with the engine's own state.
LEMMA SameWork ==
    ASSUME Types, NEW e \in Engines, paused'[e] = paused[e],
           waitQ'[e] \subseteq waitQ[e], runQ'[e] \subseteq runQ[e], Unfinished(e) = {}
    PROVE  Unfinished(e)' = {}
<1>1. CASE paused[e] = "no"
    BY <1>1 DEF Unfinished
<1>2. CASE paused[e] = "new"
    BY <1>2 DEF Unfinished
<1>3. CASE paused[e] = "all"
    BY <1>3 DEF Unfinished
<1>4. paused[e] \in {"no", "new", "all"}
    BY DEF Types, EngineTypes
<1> QED BY <1>1, <1>2, <1>3, <1>4

LEMMA PauseEngineStep ==
    ASSUME Types, Same, NEW e \in Engines, Settling(e), Phase(e),
           HandleStart(e) \/ Begin(e) \/ EndLoop(e) \/ PauseDone(e)
    PROVE  (Settling(e) /\ Phase(e))'
<1>1. CallsKept(e)
    <2>1. toEngine' = toEngine
        BY DEF HandleStart, Begin, EndLoop, PauseDone, channels
    <2> QED BY <2>1, SameQueues
<1>2. /\ pc \in [Engines -> States] /\ running \in [Engines -> BOOLEAN]
      /\ pending \in [Engines -> BOOLEAN] /\ ignore \in [Engines -> BOOLEAN]
      /\ reduced.unfinished \in BOOLEAN /\ reduced.agreed \in BOOLEAN
      /\ calls \subseteq Engines
    BY DEF Types, EngineTypes, OtherTypes
<1>3. CASE HandleStart(e)
    <2>1. /\ pc[e] = "poll"
          /\ UNCHANGED <<pc, paused, pending, ignore, waitQ, runQ, reduced, pauses, calls>>
          /\ \/ running' = running
             \/ ~ignore[e] /\ running' = [running EXCEPT ![e] = TRUE]
        BY <1>3 DEF HandleStart, Accepts, clientVars
    <2>2. CASE running' = running
        <3>1. Unfinished(e)' = Unfinished(e)
            BY <2>1 DEF Unfinished
        <3> QED BY <1>1, <2>1, <2>2, <3>1, EngineKept
    <2>3. CASE ~ignore[e] /\ running' = [running EXCEPT ![e] = TRUE]
        <3>1. CASE paused[e] = "no"
            <4>1. ~pending[e] /\ ~ignore[e]
                BY <3>1 DEF Settling
            <4>2. Settling(e)'
                BY <2>1, <3>1, <4>1 DEF Settling
            <4>3. Phase(e)'
                BY <1>1, <2>1, <3>1 DEF Phase, Odd, CallsKept
            <4> QED BY <4>2, <4>3
        <3>2. CASE paused[e] # "no"
            <4>1. pending[e] /\ running[e]
                BY <2>3, <3>2 DEF Settling
            <4>2. running'[e] /\ pending'[e]
                BY <1>2, <2>1, <2>3, <4>1
            <4>3. ~Quiet(e)
                BY <4>1 DEF Quiet
            <4> QED BY <1>1, <2>1, <3>2, <4>2, <4>3, EngineBusy
        <3> QED BY <3>1, <3>2
    <2> QED BY <2>1, <2>2, <2>3
<1>4. CASE Begin(e)
    <2>1. /\ pc[e] = "poll" /\ HasWork(e) /\ pc' = [pc EXCEPT ![e] = "forward"]
          /\ UNCHANGED <<paused, pending, ignore, running, pauses, calls>>
        BY <1>4 DEF Begin, clientVars
    <2>2. ~Quiet(e) /\ pc'[e] = "forward"
        BY <1>2, <2>1 DEF Quiet, HasWork
    <2>3. /\ paused[e] # "no" => \/ pending'[e] /\ running'[e]
                                 \/ ~pending'[e] /\ ignore'[e]
          /\ paused[e] = "no" => ~pending'[e] /\ ~ignore'[e]
        BY <2>1 DEF Settling
    <2> QED BY <1>1, <2>1, <2>2, <2>3, EngineBusy
<1>5. CASE EndLoop(e)
    <2>1. /\ pc[e] = "synced" /\ pc' = [pc EXCEPT ![e] = "poll"]
          /\ ignore' = [ignore EXCEPT ![e] = @ \/ reduced.agreed]
          /\ pending' = [pending EXCEPT ![e] = @ /\ ~reduced.agreed]
          /\ running' = [running EXCEPT ![e] = reduced.unfinished]
          /\ UNCHANGED <<paused, pauses, calls>>
        BY <1>5 DEF EndLoop, clientVars
    <2>2. /\ pc'[e] = "poll" /\ (ignore'[e] <=> ignore[e] \/ reduced.agreed)
          /\ (pending'[e] <=> pending[e] /\ ~reduced.agreed)
          /\ (running'[e] <=> reduced.unfinished)
        BY <1>2, <2>1
    <2>3. ~Quiet(e)
        BY <2>1 DEF Quiet
    <2>4. /\ paused[e] # "no" => \/ pending'[e] /\ running'[e]
                                 \/ ~pending'[e] /\ ignore'[e]
          /\ paused[e] = "no" => ~pending'[e] /\ ~ignore'[e]
        BY <2>1, <2>2 DEF Settling
    <2> QED BY <1>1, <2>1, <2>2, <2>3, <2>4, EngineBusy
<1>6. CASE PauseDone(e)
    <2>1. /\ pc[e] = "poll" /\ ~HasWork(e) /\ Odd /\ paused[e] # "no" /\ e \in calls
          /\ calls' = calls \ {e}
          /\ UNCHANGED <<pc, wave, running, step, paused, pending, ignore, waitQ, runQ, left,
                         reduced, pauses>>
        BY <1>6 DEF PauseDone, Odd, engineVars
    <2>2. Uncalled(e)'
        BY <1>1, <2>1 DEF Phase, CallsKept
    <2>3. Quiet(e)'
        BY <2>1 DEF Quiet, HasWork, Unfinished
    <2>4. Phase(e)'
        BY <2>1, <2>2, <2>3 DEF Phase, Odd
    <2>5. Settling(e)'
        BY <2>1 DEF Settling
    <2> QED BY <2>4, <2>5
<1> QED BY <1>3, <1>4, <1>5, <1>6

LEMMA PauseInput ==
    ASSUME Types, Same, NEW f \in Fronts, NEW e \in Engines, Settling(e), Phase(e),
           HandleInput(f, e)
    PROVE  (Settling(e) /\ Phase(e))'
<1>1. /\ pc \in [Engines -> States] /\ running \in [Engines -> BOOLEAN]
      /\ pending \in [Engines -> BOOLEAN] /\ ignore \in [Engines -> BOOLEAN]
      /\ paused \in [Engines -> {"no", "new", "all"}] /\ calls \subseteq Engines
      /\ DOMAIN waitQ = Engines /\ DOMAIN runQ = Engines
    BY DEF Types, EngineTypes, OtherTypes
<1>2. CASE HandleAdd(f, e)
    <2>1. Take(f, e, "add")
        BY <1>2 DEF HandleAdd
    <2>2. pc[e] = "poll" /\ CallsKept(e)
        BY <2>1, TakeFacts, TakeCalls
    <2>3. /\ UNCHANGED <<pc, paused, pending, ignore, runQ, reduced, pauses, calls>>
          /\ paused[e] # "no" => running' = running
        BY <1>2 DEF HandleAdd, Notices, clientVars
    <2>4. CASE paused[e] = "no"
        <3>1. Settling(e)'
            BY <2>2, <2>3, <2>4 DEF Settling
        <3>2. Phase(e)'
            BY <2>2, <2>3, <2>4 DEF Phase, Odd, CallsKept
        <3> QED BY <3>1, <3>2
    <2>5. CASE paused[e] # "no"
        <3>1. Unfinished(e)' = Unfinished(e)
            BY <1>1, <2>3, <2>5 DEF Unfinished
        <3> QED BY <2>2, <2>3, <2>5, <3>1, EngineKept
    <2> QED BY <2>4, <2>5
<1>3. CASE HandleAbort(f, e)
    <2>1. Take(f, e, "abort")
        BY <1>3 DEF HandleAbort
    <2>2. CallsKept(e)
        BY <2>1, TakeCalls
    <2>3. UNCHANGED <<pc, running, paused, pending, ignore, reduced, pauses, calls>>
        BY <1>3 DEF HandleAbort
    <2>4. waitQ'[e] \subseteq waitQ[e] /\ runQ'[e] \subseteq runQ[e]
        BY <1>1, <1>3 DEF HandleAbort
    <2>5. Unfinished(e) = {} => Unfinished(e)' = {}
        BY <2>3, <2>4, SameWork
    <2> QED BY <2>2, <2>3, <2>5, EngineKept
<1>4. CASE HandlePause(f, e)
    <2>1. Take(f, e, "pause")
        BY <1>4 DEF HandlePause
    <2>2. /\ pc[e] = "poll" /\ ~Uncalled(e) /\ ~Called(e, "resume")
          /\ Called(e, "pause") => Uncalled(e)'
        BY <2>1, TakeFacts, TakeCalls
    <2>3. Odd /\ e \in calls /\ Uncalled(e)'
        BY <2>2 DEF Phase
    <2>4. /\ UNCHANGED <<pc, ignore, reduced, pauses, calls>>
          /\ paused'[e] \in {"new", "all"} /\ pending'[e] /\ running'[e]
        BY <1>1, <1>4 DEF HandlePause
    <2>5. Settling(e)'
        BY <2>2, <2>4 DEF Settling
    <2>6. Phase(e)'
        BY <2>3, <2>4 DEF Phase, Odd
    <2> QED BY <2>5, <2>6
<1>5. CASE HandleResume(f, e)
    <2>1. Take(f, e, "resume")
        BY <1>5 DEF HandleResume
    <2>2. /\ pc[e] = "poll" /\ ~Uncalled(e) /\ ~Called(e, "pause")
          /\ Called(e, "resume") => Uncalled(e)'
        BY <2>1, TakeFacts, TakeCalls
    <2>3. ~Odd /\ calls # {} /\ Uncalled(e)'
        BY <2>2 DEF Phase
    <2>4. /\ UNCHANGED <<pending, reduced, pauses, calls>> /\ ~pending[e]
          /\ paused'[e] = "no" /\ ~ignore'[e] /\ pc'[e] = "resume"
        BY <1>1, <1>5 DEF HandleResume, clientVars
    <2>5. Settling(e)'
        BY <2>3, <2>4 DEF Settling, Odd
    <2>6. Phase(e)'
        BY <2>3, <2>4 DEF Phase, Odd
    <2> QED BY <2>5, <2>6
<1> QED BY <1>2, <1>3, <1>4, <1>5 DEF HandleInput

LEMMA PauseCollective ==
    ASSUME Types, Same, PauseInv,
           (\E es \in SUBSET Engines : Forward(es)) \/ AllReduce \/ ResumeBarrier
    PROVE  PauseInv'
<1>1. /\ pc \in [Engines -> States] /\ pending \in [Engines -> BOOLEAN] /\ 0 \in Engines
      /\ DOMAIN runQ = Engines
    BY ConfigFacts DEF Types, EngineTypes, OtherTypes
<1>2. \A e \in Engines : CallsKept(e)
    <2>1. toEngine' = toEngine
        BY DEF Forward, AllReduce, ResumeBarrier, channels
    <2> QED BY <2>1, SameQueues
<1>3. ASSUME NEW es \in SUBSET Engines, Forward(es), NEW e \in Engines, Settling(e), Phase(e)
      PROVE  (Settling(e) /\ Phase(e))'
    <2>1. /\ UNCHANGED <<paused, pending, ignore, waitQ, reduced, pauses, calls>>
          /\ running' = [d \in Engines |-> running[d] \/ (d \in es /\ pc'[d] = "poll")]
        BY <1>3 DEF Forward
    <2>0. running[e] => running'[e]
        BY <1>3, <2>1, Zenon
    <2>2. CASE e \in es
        <3>1. pc[e] = "forward" /\ pc'[e] \in {"sync", "poll"}
            BY <1>1, <1>3, <2>2 DEF Forward
        <3>2. /\ paused[e] # "no" => \/ pending'[e] /\ running'[e]
                                     \/ ~pending'[e] /\ ignore'[e]
              /\ paused[e] = "no" => ~pending'[e] /\ ~ignore'[e]
            BY <1>3, <2>0, <2>1 DEF Settling
        <3>3. ~Quiet(e) /\ pc[e] # "resume" /\ pc'[e] \notin {"resume", "synced"}
            BY <3>1 DEF Quiet
        <3> QED BY <1>2, <1>3, <2>1, <3>2, <3>3, EngineBusy
    <2>3. CASE e \notin es
        <3>1. pc'[e] = pc[e] /\ runQ'[e] \subseteq runQ[e] /\ running'[e] = running[e]
            <4>1. pc'[e] = pc[e] /\ runQ'[e] \subseteq runQ[e]
                BY <1>1, <1>3, <2>3 DEF Forward
            <4>2. /\ running \in [Engines -> BOOLEAN]
                  /\ running'[e] = (running[e] \/ (e \in es /\ pc'[e] = "poll"))
                BY <1>3, <2>1 DEF Types, EngineTypes
            <4> QED BY <1>3, <2>3, <4>1, <4>2
        <3>2. Unfinished(e) = {} => Unfinished(e)' = {}
            BY <2>1, <3>1, SameWork
        <3> QED BY <1>2, <1>3, <2>1, <3>1, <3>2, EngineKept
    <2> QED BY <2>2, <2>3
<1>4. ASSUME AllReduce, NEW e \in Engines, Settling(e), Phase(e)
      PROVE  (Settling(e) /\ Phase(e))'
    <2>1. /\ pc[e] = "sync" /\ pc'[e] = "synced" /\ reduced' = SyncState
          /\ UNCHANGED <<running, paused, pending, ignore, pauses, calls>>
        BY <1>4 DEF AllReduce, clientVars
    <2>2. /\ pending'[e] => reduced'.agreed \/ reduced'.unfinished
          /\ reduced'.agreed => pending'[e]
        <3>1. /\ reduced'.agreed <=> \A d \in Engines : pending[d]
              /\ (\E d \in Engines : pending[d]) /\ (\E d \in Engines : ~pending[d]) =>
                    reduced'.unfinished
            BY <2>1 DEF SyncState
        <3> QED BY <2>1, <3>1
    <2>3. /\ paused[e] # "no" => \/ pending'[e] /\ running'[e]
                                 \/ ~pending'[e] /\ ignore'[e]
          /\ paused[e] = "no" => ~pending'[e] /\ ~ignore'[e]
        BY <1>4, <2>1 DEF Settling
    <2>4. ~Quiet(e)
        BY <2>1 DEF Quiet
    <2> QED BY <1>2, <1>4, <2>1, <2>2, <2>3, <2>4, EngineBusy
<1>5. ASSUME ResumeBarrier, NEW e \in Engines, Settling(e), Phase(e)
      PROVE  (Settling(e) /\ Phase(e))'
    <2>1. /\ pc[e] = "resume" /\ pc'[e] = "poll" /\ calls' = {}
          /\ UNCHANGED <<paused, pending, ignore, reduced, pauses>>
        BY <1>5 DEF ResumeBarrier
    <2>2. paused[e] = "no" /\ ~Odd /\ calls # {} /\ ~pending[e] /\ ~ignore[e]
        BY <1>5, <2>1 DEF Settling
    <2>3. Uncalled(e)
        BY <1>5, <2>1, <2>2 DEF Phase
    <2>4. Settling(e)'
        BY <2>1, <2>2 DEF Settling
    <2>5. Phase(e)'
        BY <1>2, <2>1, <2>2, <2>3 DEF Phase, Odd, CallsKept
    <2> QED BY <2>4, <2>5
<1>6. \A e \in Engines : (Settling(e) /\ Phase(e))'
    BY <1>3, <1>4, <1>5 DEF PauseInv
<1> QED BY <1>6 DEF PauseInv, Same

LEMMA Parity ==
    ASSUME NEW n \in Nat
    PROVE  (n + 1) % 2 = 1 <=> ~(n % 2 = 1)
OBVIOUS

LEMMA PauseClient ==
    ASSUME Types, Same, PauseInv, ClientStep \/ ResumeGeneration
    PROVE  PauseInv'
<1>1. /\ UNCHANGED engineVars /\ pauses \in Nat
      /\ \A e \in Engines : Settling(e) /\ Phase(e)
    BY DEF ClientStep, AddRequest, AbortRequest, PauseGeneration, ResumeGeneration, Types,
           OtherTypes, PauseInv
<1>2. \A e \in Engines : Unfinished(e)' = Unfinished(e)
    BY <1>1 DEF Unfinished, engineVars
<1>3. ASSUME pauses' = pauses, calls' = calls, \A e \in Engines : CallsKept(e)
      PROVE  PauseInv'
    <2>1. \A e \in Engines : (Settling(e) /\ Phase(e))'
        BY <1>1, <1>2, <1>3, EngineKept DEF engineVars
    <2> QED BY <2>1 DEF PauseInv, Same
<1>4. ASSUME NEW r \in Requests, NEW d \in Targets[r],
             AddRequest(FrontOf[r], d, r) \/ AbortRequest(FrontOf[r], d, r)
      PROVE  PauseInv'
    <2> DEFINE g == FrontOf[r]
    <2>1. g \in Fronts /\ d \in Engines
        BY ConfigFacts DEF Types, OtherTypes
    <2> HIDE DEF g
    <2>2. CASE AddRequest(g, d, r)
        <3> DEFINE m == [type |-> "add", req |-> r, wave |-> fWave[g]]
        <3>1. m \in Inputs /\ ~IsCall(m)
            <4>1. fWave[g] \in Nat
                BY <2>1 DEF Types, OtherTypes
            <4> QED BY <4>1 DEF Inputs, Adds, IsCall
        <3>2. toEngine' = [toEngine EXCEPT ![<<g, d>>] = Append(@, m)]
            BY <2>2 DEF AddRequest
        <3>3. pauses' = pauses /\ calls' = calls
            BY <2>2 DEF AddRequest
        <3> HIDE DEF m
        <3> QED BY <1>3, <2>1, <3>1, <3>2, <3>3, SendCalls
    <2>3. CASE AbortRequest(g, d, r)
        <3> DEFINE m == [type |-> "abort", req |-> r]
        <3>1. m \in Inputs /\ ~IsCall(m)
            BY DEF Inputs, IsCall
        <3>2. toEngine' = [toEngine EXCEPT ![<<g, d>>] = Append(@, m)]
            BY <2>3 DEF AbortRequest
        <3>3. pauses' = pauses /\ calls' = calls
            BY <2>3 DEF AbortRequest
        <3> HIDE DEF m
        <3> QED BY <1>3, <2>1, <3>1, <3>2, <3>3, SendCalls
    <2> QED BY <1>4, <2>2, <2>3 DEF g
<1>5. CASE PauseGeneration
    <2>1. PICK k \in Modes : toEngine' = Call([type |-> "pause", mode |-> k])
        BY <1>5 DEF PauseGeneration
    <2>2. pauses % 2 = 0 /\ calls = {} /\ pauses' = pauses + 1 /\ calls' = Engines
        BY <1>5 DEF PauseGeneration
    <2>3. ~Odd /\ Odd'
        BY <1>1, <2>2, Parity DEF Odd
    <2> DEFINE m == [type |-> "pause", mode |-> k]
    <2>4. m \in Inputs /\ m.type = "pause"
        BY DEF Inputs
    <2> HIDE DEF m
    <2>5. ASSUME NEW e \in Engines PROVE (Settling(e) /\ Phase(e))'
        <3>1. paused[e] = "no" /\ Uncalled(e) /\ pc[e] # "resume"
            BY <1>1, <2>2, <2>3 DEF Phase, Settling
        <3>2. Called(e, "pause")'
            BY <2>1, <2>4, <3>1, CallCalls DEF m
        <3>3. Settling(e)'
            BY <1>1, <3>1 DEF Settling, engineVars
        <3>4. Phase(e)'
            BY <1>1, <2>2, <2>3, <3>1, <3>2 DEF Phase, engineVars
        <3> QED BY <3>3, <3>4
    <2> QED BY <2>5 DEF PauseInv, Same
<1>6. CASE ResumeGeneration
    <2>1. /\ toEngine' = Call([type |-> "resume"]) /\ Odd /\ calls = {}
          /\ pauses' = pauses + 1 /\ calls' = Engines
        BY <1>6 DEF ResumeGeneration, Odd
    <2>2. ~Odd'
        BY <1>1, <2>1, Parity DEF Odd
    <2> DEFINE m == [type |-> "resume"]
    <2>3. m \in Inputs /\ m.type = "resume"
        BY DEF Inputs
    <2> HIDE DEF m
    <2>4. 0 \in Engines
        BY ConfigFacts DEF Types, OtherTypes
    <2>5. ASSUME NEW e \in Engines PROVE (Settling(e) /\ Phase(e))'
        <3>1. paused[e] # "no" /\ Uncalled(e) /\ Quiet(e)
            BY <1>1, <2>1 DEF Phase
        <3>2. Called(e, "resume")'
            BY <2>1, <2>3, <3>1, CallCalls DEF m
        <3>3. Quiet(e)'
            BY <1>1, <1>2, <3>1 DEF Quiet, engineVars
        <3>4. Settling(e)'
            BY <1>1, <3>1, <3>3 DEF Settling, engineVars, Quiet
        <3>5. Phase(e)'
            BY <1>1, <2>1, <2>2, <2>4, <3>1, <3>2, <3>3 DEF Phase, engineVars
        <3> QED BY <3>4, <3>5
    <2> QED BY <2>5 DEF PauseInv, Same
<1> QED BY <1>4, <1>5, <1>6 DEF ClientStep

LEMMA InitPause ==
    ASSUME Init
    PROVE  PauseInv
<1>1. config \in Configs /\ pauses = 0 /\ calls = {} /\ ToSet(<<>>) = {}
    BY DEF Init, ToSet
<1>2. ~Odd
    BY <1>1 DEF Odd
<1> SUFFICES ASSUME NEW e \in Engines
             PROVE  Settling(e) /\ Phase(e)
    BY DEF PauseInv
<1>3. paused[e] = "no" /\ pc[e] = "poll" /\ ~pending[e] /\ ~ignore[e]
      /\ \A f \in Fronts : toEngine[f, e] = <<>>
    BY DEF Init
<1>4. Uncalled(e)
    BY <1>1, <1>3 DEF Uncalled, NoCall
<1> QED BY <1>1, <1>2, <1>3, <1>4 DEF Settling, Phase

LEMMA PauseKept ==
    ASSUME Types, PauseInv, [Next]_vars
    PROVE  PauseInv'
<1>1. Same
    BY NextSame
<1>2. \A e \in Engines : Settling(e) /\ Phase(e)
    BY DEF PauseInv
<1>3. CASE UNCHANGED vars \/ (\E f \in Fronts : FrontStep(f)) \/ CoordStep
    <2>1. UNCHANGED <<engineVars, toEngine, pauses, calls>>
        BY <1>3 DEF vars, channels, clientVars, FrontStep, SendFirst, ReadNews, CoordStep,
                    CoordWake, CoordComplete, CoordStart
    <2>2. \A e \in Engines : CallsKept(e) /\ Unfinished(e)' = Unfinished(e)
        BY <1>1, <2>1, SameQueues DEF Unfinished, engineVars
    <2>3. \A e \in Engines : (Settling(e) /\ Phase(e))'
        BY <1>1, <1>2, <2>1, <2>2, EngineKept DEF engineVars
    <2> QED BY <1>1, <2>3 DEF PauseInv, Same
<1>4. ASSUME NEW e \in Engines, HandleStart(e) \/ Begin(e) \/ EndLoop(e) \/ PauseDone(e)
      PROVE  PauseInv'
    <2>1. (Settling(e) /\ Phase(e))'
        BY <1>1, <1>2, <1>4, PauseEngineStep
    <2>2. ASSUME NEW d \in Engines, d # e PROVE (Settling(d) /\ Phase(d))'
        <3>1. /\ toEngine' = toEngine /\ pauses' = pauses
              /\ d \in calls' <=> d \in calls
              /\ Odd \/ calls' = calls
            BY <1>4, <2>2 DEF HandleStart, Begin, EndLoop, PauseDone, clientVars, channels, Odd
        <3>2. /\ pc'[d] = pc[d] /\ paused'[d] = paused[d] /\ pending'[d] = pending[d]
              /\ ignore'[d] = ignore[d] /\ running'[d] = running[d]
              /\ waitQ'[d] = waitQ[d] /\ runQ'[d] = runQ[d]
            <4>1. /\ pc' = [pc EXCEPT ![e] = pc'[e]] \/ pc' = pc
                  /\ paused' = paused
                  /\ pending' = pending \/ pending' = [pending EXCEPT ![e] = @ /\ ~reduced.agreed]
                  /\ ignore' = ignore \/ ignore' = [ignore EXCEPT ![e] = @ \/ reduced.agreed]
                  /\ \/ running' = running \/ running' = [running EXCEPT ![e] = TRUE]
                     \/ running' = [running EXCEPT ![e] = reduced.unfinished]
                  /\ waitQ' = waitQ \/ waitQ' = [waitQ EXCEPT ![e] = {}]
                  /\ runQ' = runQ \/ runQ' = [runQ EXCEPT ![e] = @ \cup waitQ[e]]
                <5>1. CASE HandleStart(e)
                    BY <5>1 DEF HandleStart
                <5>2. CASE Begin(e)
                    <6>1. pc' = [pc EXCEPT ![e] = "forward"] /\ pc[e] = "poll"
                        BY <5>2 DEF Begin
                    <6>2. pc' = [pc EXCEPT ![e] = pc'[e]]
                        BY <6>1 DEF Types, EngineTypes
                    <6> QED BY <5>2, <6>2 DEF Begin
                <5>3. CASE EndLoop(e)
                    <6>1. pc' = [pc EXCEPT ![e] = "poll"]
                        BY <5>3 DEF EndLoop
                    <6>2. pc' = [pc EXCEPT ![e] = pc'[e]]
                        BY <6>1 DEF Types, EngineTypes
                    <6> QED BY <5>3, <6>2 DEF EndLoop
                <5>4. CASE PauseDone(e)
                    BY <5>4 DEF PauseDone, engineVars
                <5> QED BY <1>4, <5>1, <5>2, <5>3, <5>4
            <4> QED BY <2>2, <4>1 DEF Types, EngineTypes
        <3>3. pc[d] = "synced" => reduced' = reduced
            <4>1. d \in Engines \ {e}
                BY <2>2
            <4> QED BY <1>4, <4>1 DEF HandleStart, Begin, EndLoop, PauseDone, engineVars
        <3>4. CallsKept(d)
            BY <1>1, <3>1, SameQueues
        <3>5. Unfinished(d)' = Unfinished(d)
            BY <3>2 DEF Unfinished
        <3> QED BY <1>1, <1>2, <3>1, <3>2, <3>3, <3>4, <3>5, EngineKept
    <2> QED BY <1>1, <2>1, <2>2 DEF PauseInv, Same
<1>5. ASSUME NEW e \in Engines, NEW f \in Fronts, HandleInput(f, e) PROVE PauseInv'
    <2>1. (Settling(e) /\ Phase(e))'
        BY <1>1, <1>2, <1>5, PauseInput
    <2>2. \A d \in Engines \ {e} : CallsKept(d)
        BY <1>1, <1>5, TakeCalls DEF HandleInput, HandleAdd, HandleAbort, HandlePause, HandleResume
    <2>3. ASSUME NEW d \in Engines, d # e PROVE (Settling(d) /\ Phase(d))'
        <3>1. UNCHANGED <<pauses, calls, reduced>>
            BY <1>5 DEF HandleInput, HandleAdd, HandleAbort, HandlePause, HandleResume, clientVars
        <3>2. /\ pc'[d] = pc[d] /\ paused'[d] = paused[d] /\ pending'[d] = pending[d]
              /\ ignore'[d] = ignore[d] /\ running'[d] = running[d]
              /\ waitQ'[d] = waitQ[d] /\ runQ'[d] = runQ[d]
            <4>1. d # e /\ d \in Engines
                BY <2>3
            <4>2. CASE HandleAdd(f, e)
                BY <4>1, <4>2 DEF HandleAdd, Types, EngineTypes
            <4>3. CASE HandleAbort(f, e)
                BY <4>1, <4>3 DEF HandleAbort, Types, EngineTypes
            <4>4. CASE HandlePause(f, e)
                BY <4>1, <4>4 DEF HandlePause, Types, EngineTypes
            <4>5. CASE HandleResume(f, e)
                BY <4>1, <4>5 DEF HandleResume, Types, EngineTypes
            <4> QED BY <1>5, <4>2, <4>3, <4>4, <4>5 DEF HandleInput
        <3>3. CallsKept(d)
            BY <2>2, <2>3
        <3>4. Unfinished(d)' = Unfinished(d)
            BY <3>2 DEF Unfinished
        <3> QED BY <1>1, <1>2, <3>1, <3>2, <3>3, <3>4, EngineKept
    <2> QED BY <1>1, <2>1, <2>3 DEF PauseInv, Same
<1>6. CASE Collective
    BY <1>1, <1>6, CollectiveCases, PauseCollective
<1>7. CASE ClientStep \/ ResumeGeneration
    BY <1>1, <1>7, PauseClient
<1> QED BY <1>3, <1>4, <1>5, <1>6, <1>7 DEF Next, EngineStep

\* A pause that all engines have answered finds them quiet.
LEMMA QuietFollows ==
    ASSUME PauseInv
    PROVE  PausedQuiet
BY DEF PauseInv, PausedQuiet, Phase, Quiet, Odd, HasWork

-----------------------------------------------------------------------------
(* No wake-up is lost.                                                     *)

LEMMA Unpaused ==
    ASSUME PauseInv, pauses = 0, calls = {}, NEW e \in Engines
    PROVE  paused[e] = "no" /\ ~pending[e] /\ ~ignore[e] /\ pc[e] # "resume" /\ Uncalled(e)
<1>1. ~Odd
    BY DEF Odd
<1> QED BY <1>1 DEF PauseInv, Settling, Phase

\* The steps that are left while nobody pauses.
LEMMA UnpausedSteps ==
    ASSUME Types, PauseInv, pauses = 0, calls = {}, pauses' = 0, [Next]_vars
    PROVE  \/ UNCHANGED vars
           \/ \E f \in Fronts : SendFirst(f) \/ ReadNews(f) \/ CoordWake(f)
           \/ \E e \in Engines : \/ CoordComplete(e) \/ CoordStart(e) \/ HandleStart(e)
                                 \/ Begin(e) \/ EndLoop(e)
           \/ \E f \in Fronts, e \in Engines : HandleAdd(f, e) \/ HandleAbort(f, e)
           \/ (\E es \in SUBSET Engines : Forward(es)) \/ AllReduce
           \/ \E r \in Requests, e \in Engines :
                 AddRequest(FrontOf[r], e, r) \/ AbortRequest(FrontOf[r], e, r)
<1>1. /\ Same /\ 0 \in Engines /\ \A r \in Requests : Targets[r] \subseteq Engines
      /\ \A e \in Engines : Uncalled(e) /\ pc[e] # "resume"
    BY NextSame, ConfigFacts, Unpaused DEF Types, OtherTypes
<1>2. ~PauseGeneration /\ ~ResumeGeneration
    BY DEF PauseGeneration, ResumeGeneration
<1>3. \A f \in Fronts, e \in Engines : ~HandlePause(f, e) /\ ~HandleResume(f, e)
    BY <1>1, TakeCalls DEF HandlePause, HandleResume
<1>4. ~ResumeBarrier /\ \A e \in Engines : ~PauseDone(e)
    BY <1>1 DEF ResumeBarrier, PauseDone
<1>5. Collective => (\E es \in SUBSET Engines : Forward(es)) \/ AllReduce
    BY <1>4, CollectiveCases
<1> QED BY <1>1, <1>2, <1>3, <1>4, <1>5
        DEF Next, FrontStep, CoordStep, EngineStep, HandleInput, ClientStep

\* An engine whose own state a step leaves alone.
LEMMA EngineStands ==
    ASSUME NEW e \in Engines, pc'[e] = pc[e], running'[e] = running[e],
           paused'[e] = paused[e], waitQ'[e] = waitQ[e], runQ'[e] = runQ[e],
           pc[e] = "synced" => reduced' = reduced
    PROVE  /\ Over(e)' <=> Over(e)
           /\ InWave(e)' <=> InWave(e)
           /\ Unfinished(e)' = Unfinished(e)
           /\ Awake(e)' <=> Awake(e)
<1>1. Unfinished(e)' = Unfinished(e)
    BY DEF Unfinished
<1>2. Over(e)' <=> Over(e)
    BY DEF Over
<1> QED BY <1>1, <1>2 DEF InWave, Awake, HasWork

\* While the wave lasts, what has been started stays so.
LEMMA StartedKept ==
    ASSUME Types, WavesAgree, [Next]_vars, Now' = Now, Started
    PROVE  Started'
<1>1. cWave = Now /\ cRunning /\ cWave \in Nat
    BY MessageWaves DEF Started
<1>2. CASE UNCHANGED <<cWave, cRunning>>
    BY <1>1, <1>2 DEF Started
<1>3. ASSUME NEW f \in Fronts, CoordWake(f) PROVE Started'
    BY <1>1, <1>3 DEF CoordWake, Started
<1>4. ASSUME NEW e \in Engines, CoordComplete(e) PROVE Started'
    <2> DEFINE w == Head(toCoord[e]).wave
    <2>1. /\ toCoord[e] # <<>> /\ Head(toCoord[e]).type = "complete"
          /\ toCoord' = [toCoord EXCEPT ![e] = Tail(@)]
          /\ cWave <= w \/ UNCHANGED <<cWave, cRunning>>
        BY <1>4 DEF CoordComplete, coordVars
    <2>2. w \in Nat /\ w < Now
        BY <2>1, CoordHead
    <2> HIDE DEF w
    <2>3. ~(cWave <= w)
        BY <1>1, <2>2
    <2> QED BY <1>2, <2>1, <2>3
<1>5. ASSUME NEW e \in Engines, CoordStart(e) PROVE Started'
    <2> DEFINE w == Head(toCoord[e]).wave
    <2>1. /\ toCoord[e] # <<>> /\ Head(toCoord[e]).type = "start"
          /\ toCoord' = [toCoord EXCEPT ![e] = Tail(@)]
          /\ StartsWave(w) \/ UNCHANGED <<cWave, cRunning>>
        BY <1>5 DEF CoordStart, coordVars
    <2>2. w \in Nat /\ w <= Now
        BY <2>1, CoordHead
    <2> HIDE DEF w
    <2>3. ~StartsWave(w)
        BY <1>1, <2>2 DEF StartsWave
    <2> QED BY <1>2, <2>1, <2>3
<1>6. CASE UNCHANGED vars \/ (\E f \in Fronts : FrontStep(f)) \/ (\E e \in Engines : EngineStep(e))
           \/ ClientStep \/ ResumeGeneration
    <2>1. UNCHANGED coordVars
        <3>1. CASE UNCHANGED vars \/ (\E f \in Fronts : FrontStep(f))
            BY <3>1 DEF vars, coordVars, FrontStep, SendFirst, ReadNews
        <3>2. CASE \E e \in Engines : HandleStart(e) \/ Begin(e) \/ EndLoop(e) \/ PauseDone(e)
            BY <3>2 DEF HandleStart, Begin, EndLoop, PauseDone
        <3>3. CASE \E e \in Engines, f \in Fronts : HandleAdd(f, e) \/ HandleAbort(f, e)
            BY <3>3 DEF HandleAdd, HandleAbort
        <3>4. CASE \E e \in Engines, f \in Fronts : HandlePause(f, e) \/ HandleResume(f, e)
            BY <3>4 DEF HandlePause, HandleResume
        <3>5. CASE ClientStep \/ ResumeGeneration
            BY <3>5 DEF ClientStep, AddRequest, AbortRequest, PauseGeneration, ResumeGeneration
        <3> QED BY <1>6, <3>1, <3>2, <3>3, <3>4, <3>5 DEF EngineStep, HandleInput
    <2> QED BY <1>2, <2>1 DEF coordVars
<1>7. CASE Collective
    BY <1>2, <1>7, CollectiveCases DEF Forward, AllReduce, ResumeBarrier, coordVars
<1> QED BY <1>3, <1>4, <1>5, <1>6, <1>7 DEF Next, CoordStep

\* Who has been asked to start the wave has it started, or passes it on.
LEMMA WokenKept ==
    ASSUME Types, WavesAgree, PauseInv, pauses = 0, calls = {}, pauses' = 0, [Next]_vars,
           Now' = Now, Woken
    PROVE  Woken'
<1>1. /\ Same /\ cWave \in Nat /\ Now \in Nat /\ cWave <= Now
      /\ first \in [Fronts -> Nat] /\ wakes \in [Fronts -> Seq(Nat)]
    BY NextSame, MessageWaves DEF Types, OtherTypes, ChannelTypes, WavesAgree
<1> DEFINE Asked(f) == first[f] > 0 \/ wakes[f] # <<>>
           Comes(e) == \E m \in ToSet(toCoord[e]) : m.type = "start" /\ m.wave = Now
<1>2. CASE Started
    BY <1>2, StartedKept DEF Woken
<1>3. ASSUME NEW e \in Engines, Comes(e) PROVE Woken'
    <2>1. PICK m \in ToSet(toCoord[e]) : m.type = "start" /\ m.wave = Now
        BY <1>3
    <2>2. CASE m \in ToSet(toCoord'[e])
        BY <1>1, <2>1, <2>2 DEF Woken, Same
    <2>3. CASE m \notin ToSet(toCoord'[e])
        <3>1. ASSUME NEW d \in Engines, CoordComplete(d) PROVE FALSE
            <4>1. /\ toCoord[d] # <<>> /\ Head(toCoord[d]).type = "complete"
                  /\ toCoord' = [toCoord EXCEPT ![d] = Tail(@)]
                BY <3>1 DEF CoordComplete
            <4>2. m = Head(toCoord[d])
                BY <2>3, <4>1, CoordHead
            <4> QED BY <2>1, <4>1, <4>2
        <3>2. ASSUME NEW d \in Engines, CoordStart(d) PROVE Woken'
            <4>1. /\ toCoord[d] # <<>> /\ Head(toCoord[d]).type = "start"
                  /\ toCoord' = [toCoord EXCEPT ![d] = Tail(@)]
                BY <3>2 DEF CoordStart
            <4>2. m = Head(toCoord[d])
                BY <2>3, <4>1, CoordHead
            <4>3. Head(toCoord[d]).wave = Now
                BY <2>1, <4>2
            <4>4. CASE StartsWave(Now)
                <5>1. cWave' = Now /\ cRunning'
                    BY <3>2, <4>3, <4>4 DEF CoordStart
                <5> QED BY <5>1 DEF Woken, Started
            <4>5. CASE ~StartsWave(Now)
                <5>1. UNCHANGED <<cWave, cRunning>>
                    BY <3>2, <4>3, <4>5 DEF CoordStart, coordVars
                <5>2. cWave = Now /\ cRunning
                    BY <1>1, <4>5 DEF StartsWave
                <5> QED BY <5>1, <5>2 DEF Woken, Started
            <4> QED BY <4>4, <4>5
        <3>3. ASSUME NEW d \in Engines, NEW f \in Fronts, HandleAdd(f, d) PROVE FALSE
            <4> DEFINE S == [type : {"start", "complete"}, wave : Nat]
                       x == [type |-> "start", wave |-> wave[d]]
            <4>1. toCoord \in [Engines -> Seq(S)] /\ x \in S
                BY DEF Types, ChannelTypes, EngineTypes
            <4>2. toCoord' = toCoord \/ toCoord' = [toCoord EXCEPT ![d] = Append(@, x)]
                BY <3>3 DEF HandleAdd
            <4> HIDE DEF S, x
            <4>3. ToSet(Append(toCoord[d], x)) = ToSet(toCoord[d]) \cup {x}
                BY <4>1, AppendSet
            <4> QED BY <2>1, <2>3, <4>1, <4>2, <4>3
        <3>4. ASSUME NEW d \in Engines, EndLoop(d) PROVE FALSE
            <4> DEFINE S == [type : {"start", "complete"}, wave : Nat]
                       x == [type |-> "complete", wave |-> wave[0]]
            <4>1. toCoord \in [Engines -> Seq(S)] /\ 0 \in Engines /\ x \in S
                BY ConfigFacts DEF Types, ChannelTypes, EngineTypes, OtherTypes
            <4>2. toCoord' = toCoord \/ toCoord' = [toCoord EXCEPT ![0] = Append(@, x)]
                BY <3>4 DEF EndLoop
            <4> HIDE DEF S, x
            <4>3. ToSet(Append(toCoord[0], x)) = ToSet(toCoord[0]) \cup {x}
                BY <4>1, AppendSet
            <4> QED BY <2>1, <2>3, <4>1, <4>2, <4>3
        <3>5. toCoord' # toCoord
            BY <2>1, <2>3
        <3> QED BY <3>1, <3>2, <3>3, <3>4, <3>5, UnpausedSteps
                DEF vars, channels, SendFirst, ReadNews, CoordWake, HandleStart, Begin, HandleAbort,
                    Forward, AllReduce, AddRequest, AbortRequest
    <2> QED BY <2>2, <2>3
<1>4. ASSUME NEW f \in Fronts, cWave = Now, Asked(f) PROVE Woken'
    <2>1. CASE cWave' = cWave /\ (first'[f] > 0 \/ wakes'[f] # <<>>)
        BY <1>1, <1>4, <2>1 DEF Woken, Same
    <2>2. CASE CoordWake(f)
        <3>1. cWave' = Now /\ cRunning'
            BY <1>4, <2>2 DEF CoordWake
        <3> QED BY <3>1 DEF Woken, Started
    <2>3. ASSUME NEW g \in Fronts, CoordWake(g), g # f PROVE Woken'
        <3>1. cWave' = cWave /\ wakes'[f] = wakes[f] /\ first' = first
            BY <1>1, <2>3 DEF CoordWake
        <3> QED BY <1>4, <2>1, <3>1
    <2>4. ASSUME NEW g \in Fronts, SendFirst(g) PROVE Woken'
        <3>1. /\ cWave' = cWave /\ first' = [first EXCEPT ![g] = @ - 1]
              /\ wakes' = [wakes EXCEPT ![g] = Append(@, fWave[g])]
            BY <2>4 DEF SendFirst, coordVars
        <3>2. CASE g = f
            <4>1. wakes[f] \in Seq(Nat) /\ fWave[f] \in Nat
                BY <1>1 DEF Types, OtherTypes
            <4>2. Append(wakes[f], fWave[f]) # <<>>
                BY <4>1, AppendSet
            <4> QED BY <1>1, <2>1, <3>1, <3>2, <4>2
        <3>3. CASE g # f
            BY <1>1, <1>4, <2>1, <3>1, <3>3
        <3> QED BY <3>2, <3>3
    <2>5. ASSUME NEW g \in Fronts, ReadNews(g) PROVE Woken'
        BY <1>4, <2>1, <2>5 DEF ReadNews, coordVars, channels
    <2>6. CASE CoordStep
        <3>1. cWave' = cWave
            BY <1>1, <1>4, <2>6, CoordWaves
        <3>2. ASSUME NEW d \in Engines, CoordComplete(d) \/ CoordStart(d) PROVE Woken'
            BY <1>4, <2>1, <3>1, <3>2 DEF CoordComplete, CoordStart
        <3> QED BY <2>2, <2>3, <2>6, <3>2 DEF CoordStep
    <2>7. ASSUME NEW g \in Fronts, NEW d \in Engines, NEW r \in Requests,
                 AddRequest(g, d, r)
          PROVE  Woken'
        <3>1. /\ cWave' = cWave /\ wakes' = wakes
              /\ first' = first \/ first' = [first EXCEPT ![g] = @ + 1]
            BY <2>7 DEF AddRequest, coordVars
        <3>2. first[f] > 0 => first'[f] > 0
            <4>1. first[f] \in Nat
                BY <1>1
            <4>2. first'[f] = first[f] \/ first'[f] = first[f] + 1
                BY <1>1, <3>1
            <4> QED BY <4>1, <4>2
        <3> QED BY <1>4, <2>1, <3>1, <3>2
    <2>8. ASSUME cWave' = cWave, first' = first, wakes' = wakes PROVE Woken'
        BY <1>4, <2>1, <2>8
    <2>9. CASE UNCHANGED vars
        BY <2>8, <2>9 DEF vars, coordVars, frontVars, channels
    <2>10. ASSUME NEW d \in Engines, HandleStart(d) \/ Begin(d) \/ EndLoop(d) PROVE Woken'
        BY <2>8, <2>10 DEF HandleStart, Begin, EndLoop, coordVars, frontVars, channels
    <2>11. ASSUME NEW g \in Fronts, NEW d \in Engines, HandleAdd(g, d) \/ HandleAbort(g, d)
           PROVE  Woken'
        BY <2>8, <2>11 DEF HandleAdd, HandleAbort, coordVars, frontVars
    <2>12. CASE (\E es \in SUBSET Engines : Forward(es)) \/ AllReduce
        BY <2>8, <2>12 DEF Forward, AllReduce, coordVars, frontVars, channels
    <2>13. ASSUME NEW r \in Requests, NEW d \in Engines,
                  AddRequest(FrontOf[r], d, r) \/ AbortRequest(FrontOf[r], d, r)
           PROVE  Woken'
        <3>1. CASE AbortRequest(FrontOf[r], d, r)
            BY <2>8, <3>1 DEF AbortRequest, coordVars, frontVars
        <3>2. FrontOf[r] \in Fronts
            BY ConfigFacts DEF Types, OtherTypes
        <3> QED BY <2>7, <2>13, <3>1, <3>2
    <2> QED BY <2>2, <2>3, <2>4, <2>5, <2>6, <2>9, <2>10, <2>11, <2>12, <2>13, UnpausedSteps
            DEF CoordStep
<1> QED BY <1>2, <1>3, <1>4 DEF Woken

\* An engine that takes part does so until the wave is over.
LEMMA InWaveKept ==
    ASSUME Types, WavesAgree, PauseInv, pauses = 0, calls = {}, pauses' = 0, [Next]_vars,
           Now' = Now, NEW d \in Engines
    PROVE  /\ Over(d)' => Over(d) /\ (Unfinished(d) = {} => Unfinished(d)' = {})
           /\ InWave(d) => InWave(d)'
<1>1. /\ pc \in [Engines -> States] /\ running \in [Engines -> BOOLEAN]
      /\ paused \in [Engines -> {"no", "new", "all"}]
      /\ DOMAIN waitQ = Engines /\ DOMAIN runQ = Engines
      /\ reduced.unfinished \in BOOLEAN /\ Now \in Nat
    BY MessageWaves DEF Types, EngineTypes
<1> DEFINE Kept == /\ Over(d)' => Over(d) /\ (Unfinished(d) = {} => Unfinished(d)' = {})
                   /\ InWave(d) => InWave(d)'
<1>2. ASSUME pc'[d] = pc[d], running'[d] = running[d],
             paused'[d] = paused[d], waitQ'[d] = waitQ[d], runQ'[d] = runQ[d],
             pc[d] = "synced" => reduced' = reduced
      PROVE  Kept
    BY <1>2, EngineStands
\* An engine between its steps.
<1>3. ASSUME pc[d] = "poll", pc'[d] # "synced", running[d] => running'[d] PROVE Kept
    BY <1>3 DEF InWave, Over
<1> HIDE DEF Kept
<1>4. ASSUME UNCHANGED vars PROVE Kept
    BY <1>2, <1>4 DEF vars, engineVars
<1>5. ASSUME NEW f \in Fronts, SendFirst(f) \/ ReadNews(f) \/ CoordWake(f) PROVE Kept
    BY <1>2, <1>5 DEF SendFirst, ReadNews, CoordWake, engineVars
<1>6. ASSUME NEW e \in Engines, CoordComplete(e) \/ CoordStart(e) PROVE Kept
    BY <1>2, <1>6 DEF CoordComplete, CoordStart, engineVars
<1>7. ASSUME NEW r \in Requests, NEW e \in Engines,
             AddRequest(FrontOf[r], e, r) \/ AbortRequest(FrontOf[r], e, r)
      PROVE  Kept
    BY <1>2, <1>7 DEF AddRequest, AbortRequest, engineVars
<1>8. ASSUME NEW e \in Engines, HandleStart(e) PROVE Kept
    <2>1. /\ pc[e] = "poll" /\ UNCHANGED <<pc, paused, waitQ, runQ, reduced>>
          /\ running' = running \/ running' = [running EXCEPT ![e] = TRUE]
        BY <1>8 DEF HandleStart
    <2>2. CASE d = e
        <3>1. running[d] => running'[d]
            BY <1>1, <2>1
        <3> QED BY <1>3, <2>1, <2>2, <3>1
    <2>3. CASE d # e
        <3>1. running'[d] = running[d]
            BY <1>1, <2>1, <2>3
        <3> QED BY <1>2, <2>1, <3>1
    <2> QED BY <2>2, <2>3
<1>9. ASSUME NEW e \in Engines, Begin(e) PROVE Kept
    <2>1. /\ pc[e] = "poll" /\ pc' = [pc EXCEPT ![e] = "forward"]
          /\ UNCHANGED <<running, paused, reduced>>
          /\ runQ' = runQ \/ runQ' = [runQ EXCEPT ![e] = @ \cup waitQ[e]]
          /\ waitQ' = waitQ \/ waitQ' = [waitQ EXCEPT ![e] = {}]
        BY <1>9 DEF Begin
    <2>2. CASE d = e
        <3>1. pc'[d] = "forward"
            BY <1>1, <2>1, <2>2
        <3> QED BY <1>3, <2>1, <2>2, <3>1
    <2>3. CASE d # e
        BY <1>1, <1>2, <2>1, <2>3
    <2> QED BY <2>2, <2>3
<1>10. ASSUME NEW e \in Engines, EndLoop(e) PROVE Kept
    <2>1. /\ pc[e] = "synced" /\ pc' = [pc EXCEPT ![e] = "poll"]
          /\ running' = [running EXCEPT ![e] = reduced.unfinished]
          /\ UNCHANGED <<paused, waitQ, runQ>>
          /\ reduced' = IF \E c \in Engines \ {e} : pc[c] = "synced" THEN reduced ELSE NoResult
        BY <1>10 DEF EndLoop
    <2>2. CASE d = e
        <3>1. pc[d] = "synced" /\ pc'[d] = "poll" /\ (running'[d] <=> reduced.unfinished)
            BY <1>1, <2>1, <2>2
        <3>2. ~Over(d)' /\ (InWave(d) => InWave(d)')
            BY <3>1 DEF InWave, Over
        <3> QED BY <3>2 DEF Kept
    <2>3. CASE d # e
        <3>1. d \in Engines \ {e}
            BY <2>3
        <3>2. pc[d] = "synced" => reduced' = reduced
            BY <2>1, <3>1
        <3> QED BY <1>1, <1>2, <2>1, <2>3, <3>2
    <2> QED BY <2>2, <2>3
<1>11. ASSUME NEW f \in Fronts, NEW e \in Engines, HandleAdd(f, e) \/ HandleAbort(f, e)
       PROVE  Kept
    <2>1. /\ pc[e] = "poll" /\ UNCHANGED <<pc, paused, reduced>>
          /\ running' = running \/ running' = [running EXCEPT ![e] = TRUE]
        BY <1>11 DEF HandleAdd, HandleAbort, Take
    <2>2. CASE d = e
        <3>1. running[d] => running'[d]
            BY <1>1, <2>1
        <3> QED BY <1>3, <2>1, <2>2, <3>1
    <2>3. CASE d # e
        <3>1. running'[d] = running[d]
            BY <1>1, <2>1, <2>3
        <3>2. waitQ'[d] = waitQ[d] /\ runQ'[d] = runQ[d]
            BY <1>1, <1>11, <2>3 DEF HandleAdd, HandleAbort
        <3> QED BY <1>2, <2>1, <3>1, <3>2
    <2> QED BY <2>2, <2>3
<1>12. ASSUME NEW es \in SUBSET Engines, Forward(es) PROVE Kept
    <2>1. /\ \A e \in es : pc[e] = "forward"
          /\ UNCHANGED <<paused, waitQ, reduced>>
          /\ pc'[d] = IF d \notin es THEN pc[d] ELSE IF step'[d] = 0 THEN "sync" ELSE "poll"
          /\ running'[d] = (running[d] \/ (d \in es /\ pc'[d] = "poll"))
          /\ runQ'[d] \subseteq runQ[d]
        BY <1>12 DEF Forward
    <2>2. CASE d \in es
        <3>1. pc[d] = "forward" /\ (pc'[d] = "sync" \/ (pc'[d] = "poll" /\ running'[d]))
            BY <2>1, <2>2
        <3>2. ~Over(d)' /\ InWave(d)'
            BY <3>1 DEF Over, InWave
        <3> QED BY <3>2 DEF Kept
    <2>3. CASE d \notin es
        <3>1. pc'[d] = pc[d] /\ running'[d] = running[d]
            <4>1. pc'[d] = pc[d] /\ (running'[d] <=> running[d])
                BY <2>1, <2>3
            <4>2. running[d] \in BOOLEAN
                BY <1>1
            <4> QED BY <2>1, <2>3, <4>1, <4>2
        <3>2. Unfinished(d) = {} => Unfinished(d)' = {}
            BY <2>1, SameWork
        <3>3. /\ Over(d)' <=> Over(d)
              /\ InWave(d)' <=> InWave(d)
            BY <2>1, <3>1 DEF Over, InWave
        <3> QED BY <3>2, <3>3 DEF Kept
    <2> QED BY <2>2, <2>3
<1>13. ASSUME AllReduce PROVE Kept
    <2>1. pc[d] = "sync" /\ pc'[d] = "synced" /\ reduced' = SyncState
        BY <1>13 DEF AllReduce
    <2>2. SyncState.unfinished
        <3>1. Now # Now + 1
            BY <1>1
        <3>2. wave' = wave /\ wave \in [Engines -> Nat] /\ 0 \in Engines
              /\ pc[0] = "sync" /\ pc'[0] = "synced"
            BY <1>13, ConfigFacts DEF AllReduce, Types, EngineTypes, OtherTypes
        <3>3. Now = wave[0]
            BY <3>2 DEF Now, Current, Over
        <3>4. ~SyncState.unfinished => Now' = wave[0] + 1
            BY <2>1, <3>2 DEF Now, Current, Over
        <3> QED BY <3>1, <3>3, <3>4
    <2>3. ~Over(d)' /\ InWave(d)'
        BY <2>1, <2>2 DEF Over, InWave
    <2> QED BY <2>3 DEF Kept
<1>14. Kept
    BY <1>4, <1>5, <1>6, <1>7, <1>8, <1>9, <1>10, <1>11, <1>12, <1>13, UnpausedSteps
<1> QED BY <1>14 DEF Kept

\* Whoever is awake has had the wave started, or has seen to it.
LEMMA AwakeKept ==
    ASSUME Types, WavesAgree, PauseInv, pauses = 0, WakeInv, pauses' = 0, [Next]_vars,
           Now' = Now, NEW d \in Engines, ~Over(d)', Awake(d)'
    PROVE  Woken'
<1>1. calls = {} /\ EnginesWake /\ StartsMatch /\ FrontsKnow
    BY DEF WakeInv
<1>2. Woken => Woken'
    BY <1>1, WokenKept
<1>3. ASSUME ~Over(d), Awake(d) PROVE Woken'
    BY <1>1, <1>2, <1>3 DEF EnginesWake
<1>4. ASSUME pc'[d] = pc[d], running'[d] = running[d],
             paused'[d] = paused[d], waitQ'[d] = waitQ[d], runQ'[d] = runQ[d],
             pc[d] = "synced" => reduced' = reduced
      PROVE  Woken'
    BY <1>3, <1>4, EngineStands
<1>5. /\ pc \in [Engines -> States] /\ running \in [Engines -> BOOLEAN]
      /\ paused \in [Engines -> {"no", "new", "all"}]
      /\ DOMAIN waitQ = Engines /\ DOMAIN runQ = Engines
      /\ reduced.unfinished \in BOOLEAN /\ Now \in Nat
    BY MessageWaves DEF Types, EngineTypes
<1>6. CASE UNCHANGED vars
    BY <1>4, <1>6 DEF vars, engineVars
<1>7. ASSUME NEW f \in Fronts, SendFirst(f) \/ ReadNews(f) \/ CoordWake(f) PROVE Woken'
    BY <1>4, <1>7 DEF SendFirst, ReadNews, CoordWake, engineVars
<1>8. ASSUME NEW e \in Engines, CoordComplete(e) \/ CoordStart(e) PROVE Woken'
    BY <1>4, <1>8 DEF CoordComplete, CoordStart, engineVars
<1>9. ASSUME NEW r \in Requests, NEW e \in Engines,
             AddRequest(FrontOf[r], e, r) \/ AbortRequest(FrontOf[r], e, r)
      PROVE  Woken'
    BY <1>4, <1>9 DEF AddRequest, AbortRequest, engineVars
<1>10. ASSUME NEW e \in Engines, HandleStart(e) PROVE Woken'
    <2>1. /\ UNCHANGED <<pc, paused, waitQ, runQ, reduced>>
          /\ \/ running' = running
             \/ Head(starts[e]).wave >= wave[e]
        BY <1>10 DEF HandleStart, Accepts
    <2>2. CASE running' = running
        BY <1>4, <2>1, <2>2
    <2>3. CASE Head(starts[e]).wave >= wave[e]
        <3> DEFINE m == Head(starts[e])
        <3>1. m \in ToSet(starts[e]) /\ m.wave \in Nat /\ m.wave <= cWave /\ wave[e] = Now
            BY <1>10, StartKeepsWave
        <3>2. cWave \in Nat /\ cWave <= Now
            BY MessageWaves DEF WavesAgree
        <3>3. m.wave >= Now
            BY <2>3, <3>1
        <3> HIDE DEF m
        <3>4. m.wave = Now
            BY <1>5, <3>1, <3>2, <3>3
        <3>5. Started
            BY <1>1, <3>1, <3>4 DEF StartsMatch
        <3> QED BY <1>2, <3>5 DEF Woken
    <2> QED BY <2>1, <2>2, <2>3
<1>11. ASSUME NEW e \in Engines, Begin(e) PROVE Woken'
    <2>1. CASE d = e
        <3>1. pc[d] = "poll" /\ HasWork(d)
            BY <1>11, <2>1 DEF Begin
        <3> QED BY <1>3, <3>1 DEF Over, Awake
    <2>2. CASE d # e
        BY <1>4, <1>5, <1>11, <2>2 DEF Begin
    <2> QED BY <2>1, <2>2
<1>12. ASSUME NEW e \in Engines, EndLoop(e) PROVE Woken'
    <2>1. /\ pc[e] = "synced" /\ pc' = [pc EXCEPT ![e] = "poll"]
          /\ running' = [running EXCEPT ![e] = reduced.unfinished]
          /\ UNCHANGED <<paused, waitQ, runQ>>
          /\ reduced' = IF \E c \in Engines \ {e} : pc[c] = "synced" THEN reduced ELSE NoResult
        BY <1>12 DEF EndLoop
    <2>2. CASE d = e
        <3>1. pc[d] = "synced" /\ pc'[d] = "poll" /\ (running'[d] <=> reduced.unfinished)
            BY <1>5, <2>1, <2>2
        <3>2. CASE reduced.unfinished
            BY <1>3, <3>1, <3>2 DEF Over, Awake
        <3>3. CASE ~reduced.unfinished
            <4>1. Unfinished(d) = {}
                BY <1>1, <3>1, <3>3 DEF EnginesWake, Over
            <4>2. Unfinished(d)' = {}
                BY <2>1, <4>1 DEF Unfinished
            <4>3. ~Awake(d)'
                BY <3>1, <3>3, <4>2 DEF Awake, HasWork
            <4> QED BY <4>3
        <3> QED BY <3>2, <3>3
    <2>3. CASE d # e
        <3>1. d \in Engines \ {e}
            BY <2>3
        <3>2. pc[d] = "synced" => reduced' = reduced
            BY <2>1, <3>1
        <3> QED BY <1>4, <1>5, <2>1, <2>3, <3>2
    <2> QED BY <2>2, <2>3
<1>13. ASSUME NEW f \in Fronts, NEW e \in Engines, HandleAdd(f, e) PROVE Woken'
    <2>1. CASE d = e
        <3> DEFINE m == Head(toEngine[f, e])
                   x == [type |-> "start", wave |-> wave[e]]
        <3>1. /\ m.wave \in Nat /\ m.wave <= cWave /\ pc[e] = "poll" /\ wave[e] = Now
            BY <1>13, AddKeepsWave
        <3>2. m \in ToSet(toEngine[f, e]) /\ m.type = "add"
            BY <1>13, TakeFacts DEF HandleAdd
        <3>3. cWave \in Nat /\ cWave <= Now
            BY MessageWaves DEF WavesAgree
        <3>4. Notices(e, m.wave) => toCoord' = [toCoord EXCEPT ![e] = Append(@, x)]
            BY <1>13 DEF HandleAdd
        <3> HIDE DEF m
        <3>5. CASE m.wave = Now
            BY <1>1, <1>2, <3>2, <3>5 DEF FrontsKnow
        <3>6. CASE m.wave < Now /\ running[e]
            BY <1>3, <2>1, <3>1, <3>6 DEF Over, Awake, HasWork
        <3>7. CASE m.wave < Now /\ ~running[e]
            <4>1. paused[e] = "no"
                BY <1>1, Unpaused
            <4>2. Notices(e, m.wave)
                BY <3>1, <3>7, <4>1 DEF Notices
            <4> DEFINE S == [type : {"start", "complete"}, wave : Nat]
            <4>3. toCoord \in [Engines -> Seq(S)] /\ x \in S /\ x.type = "start" /\ x.wave = Now
                BY <1>5, <3>1 DEF Types, ChannelTypes
            <4> HIDE DEF S, x
            <4>4. x \in ToSet(Append(toCoord[e], x))
                BY <4>3, AppendSet
            <4>5. x \in ToSet(toCoord'[e])
                BY <3>4, <4>2, <4>3, <4>4
            <4> QED BY <4>3, <4>5, NextSame DEF Woken, Same
        <3> QED BY <1>5, <3>1, <3>3, <3>5, <3>6, <3>7
    <2>2. CASE d # e
        <3>1. /\ UNCHANGED <<pc, paused, reduced, runQ>> /\ waitQ'[d] = waitQ[d]
              /\ running' = running \/ running' = [running EXCEPT ![e] = TRUE]
            BY <1>5, <1>13, <2>2 DEF HandleAdd
        <3>2. running'[d] = running[d]
            BY <1>5, <2>2, <3>1
        <3> QED BY <1>4, <3>1, <3>2
    <2> QED BY <2>1, <2>2
<1>14. ASSUME NEW f \in Fronts, NEW e \in Engines, HandleAbort(f, e) PROVE Woken'
    <2>1. /\ UNCHANGED <<pc, paused, reduced, running>>
          /\ waitQ'[d] \subseteq waitQ[d] /\ runQ'[d] \subseteq runQ[d]
        BY <1>5, <1>14 DEF HandleAbort
    <2>2. Unfinished(d) = {} => Unfinished(d)' = {}
        BY <2>1, SameWork
    <2>3. ~Over(d) /\ Awake(d)
        BY <2>1, <2>2 DEF Over, Awake, HasWork
    <2> QED BY <1>3, <2>3
<1>15. ASSUME NEW es \in SUBSET Engines, Forward(es) PROVE Woken'
    <2>1. /\ \A e \in es : pc[e] = "forward"
          /\ UNCHANGED <<paused, waitQ, reduced>>
          /\ pc'[d] = IF d \notin es THEN pc[d] ELSE IF step'[d] = 0 THEN "sync" ELSE "poll"
          /\ running'[d] = (running[d] \/ (d \in es /\ pc'[d] = "poll"))
          /\ runQ'[d] \subseteq runQ[d]
        BY <1>15 DEF Forward
    <2>2. CASE d \in es
        <3>1. pc[d] = "forward"
            BY <2>1, <2>2
        <3> QED BY <1>3, <3>1 DEF Over, Awake
    <2>3. CASE d \notin es
        <3>1. pc'[d] = pc[d] /\ (running'[d] <=> running[d])
            BY <2>1, <2>3
        <3>2. Unfinished(d) = {} => Unfinished(d)' = {}
            BY <2>1, SameWork
        <3>3. ~Over(d) /\ Awake(d)
            BY <2>1, <3>1, <3>2 DEF Over, Awake, HasWork
        <3> QED BY <1>3, <3>3
    <2> QED BY <2>2, <2>3
<1>16. CASE AllReduce
    <2>1. pc[d] = "sync"
        BY <1>16 DEF AllReduce
    <2> QED BY <1>3, <2>1 DEF Over, Awake
<1> QED BY <1>1, <1>6, <1>7, <1>8, <1>9, <1>10, <1>11, <1>12, <1>13, <1>14, <1>15, <1>16,
           UnpausedSteps

\* A start reaches every engine that does not take part yet.
LEMMA ToldKept ==
    ASSUME Types, WavesAgree, PauseInv, pauses = 0, WakeInv, pauses' = 0, [Next]_vars,
           Now' = Now, NEW d \in Engines, Started'
    PROVE  InWave(d)' \/ Told(d)'
<1>1. /\ calls = {} /\ EnginesWake /\ StartsMatch /\ Same
      /\ cWave \in Nat /\ Now \in Nat /\ cWave' = Now /\ cRunning'
    BY NextSame, MessageWaves DEF WakeInv, Started
<1>2. InWave(d) => InWave(d)'
    BY <1>1, InWaveKept
<1>3. CASE Started
    <2>1. CASE InWave(d)
        BY <1>2, <2>1
    <2>2. CASE Told(d)
        <3>1. PICK m \in ToSet(starts[d]) : m.wave = Now /\ m.exclude # d
            BY <2>2 DEF Told
        <3>2. CASE m \in ToSet(starts'[d])
            BY <3>1, <3>2 DEF Told
        <3>3. CASE m \notin ToSet(starts'[d])
            <4> DEFINE S == [wave : Nat, exclude : Engines \cup {-1}]
            <4>1. starts \in [Engines -> Seq(S)]
                BY DEF Types, ChannelTypes
            <4> HIDE DEF S
            <4>2. CASE HandleStart(d)
                <5>1. starts[d] # <<>> /\ starts' = [starts EXCEPT ![d] = Tail(@)]
                    BY <4>2 DEF HandleStart
                <5>2. m = Head(starts[d])
                    <6>1. ToSet(starts[d]) \subseteq {Head(starts[d])} \cup ToSet(Tail(starts[d]))
                        BY <4>1, <5>1, TailSet
                    <6> QED BY <3>1, <3>3, <4>1, <5>1, <6>1
                <5>3. pc[d] = "poll" /\ wave[d] = Now
                    BY <4>2, StartKeepsWave
                <5>4. ~ignore[d]
                    BY <1>1, Unpaused
                <5>5. Accepts(d, Head(starts[d]))
                    BY <1>1, <3>1, <5>2, <5>3, <5>4 DEF Accepts
                <5>6. running' = [running EXCEPT ![d] = TRUE] /\ pc' = pc
                    BY <4>2, <5>5 DEF HandleStart
                <5>7. running'[d] /\ pc'[d] = "poll"
                    BY <5>3, <5>6 DEF Types, EngineTypes
                <5> QED BY <5>7 DEF InWave, Over
            <4>3. ASSUME NEW e \in Engines, HandleStart(e), e # d PROVE FALSE
                BY <3>1, <3>3, <4>1, <4>3 DEF HandleStart
            <4>4. CASE CoordStep
                <5>1. ASSUME NEW w \in Nat, NEW x \in Engines \cup {-1}, starts' = Start(w, x)
                      PROVE  FALSE
                    BY <3>1, <3>3, <5>1, StartFacts
                <5>2. ASSUME NEW f \in Fronts, CoordWake(f) PROVE FALSE
                    <6>1. starts' = starts \/ starts' = Start(cWave, -1)
                        BY <5>2 DEF CoordWake
                    <6>2. -1 \in Engines \cup {-1}
                        OBVIOUS
                    <6> QED BY <1>1, <3>1, <3>3, <5>1, <6>1, <6>2
                <5>3. ASSUME NEW e \in Engines, CoordComplete(e) PROVE FALSE
                    BY <3>1, <3>3, <5>3 DEF CoordComplete
                <5>4. ASSUME NEW e \in Engines, CoordStart(e) PROVE FALSE
                    <6>1. starts' = starts \/ starts' = Start(Head(toCoord[e]).wave, e)
                        BY <5>4 DEF CoordStart
                    <6>2. Head(toCoord[e]).wave \in Nat /\ e \in Engines \cup {-1}
                        BY <5>4, CoordHead DEF CoordStart
                    <6> QED BY <3>1, <3>3, <5>1, <6>1, <6>2
                <5> QED BY <4>4, <5>2, <5>3, <5>4 DEF CoordStep
            <4>5. CASE starts' = starts
                BY <3>1, <3>3, <4>5
            <4> QED BY <1>1, <4>2, <4>3, <4>4, <4>5, UnpausedSteps
                    DEF vars, channels, SendFirst, ReadNews, CoordStep, Begin, EndLoop, HandleAdd,
                        HandleAbort, Forward, AllReduce, AddRequest, AbortRequest
        <3> QED BY <3>2, <3>3
    <2> QED BY <1>1, <1>3, <2>1, <2>2 DEF EnginesWake
<1>4. CASE ~Started
    <2>1. ASSUME NEW x \in Engines \cup {-1}, x # d, starts' = Start(Now, x) PROVE Told(d)'
        <3>1. [wave |-> Now, exclude |-> x] \in ToSet(starts'[d])
            BY <1>1, <2>1, StartFacts
        <3> DEFINE m == [wave |-> Now, exclude |-> x]
        <3>2. m \in ToSet(starts'[d]) /\ m.wave = Now /\ m.exclude # d
            BY <2>1, <3>1
        <3> HIDE DEF m
        <3> QED BY <3>2 DEF Told
    <2>2. ASSUME NEW f \in Fronts, CoordWake(f) PROVE Told(d)'
        <3>1. cWave' = cWave
            BY <2>2 DEF CoordWake
        <3>2. ~cRunning
            BY <1>1, <1>4, <3>1 DEF Started
        <3>3. starts' = Start(Now, -1)
            BY <1>1, <2>2, <3>1, <3>2 DEF CoordWake
        <3>4. -1 \notin Engines
            BY ConfigFacts DEF Types, OtherTypes
        <3> QED BY <2>1, <3>3, <3>4
    <2>3. ASSUME NEW e \in Engines, CoordComplete(e) PROVE FALSE
        <3>1. cRunning' = FALSE \/ UNCHANGED <<cWave, cRunning>>
            BY <2>3 DEF CoordComplete, coordVars
        <3> QED BY <1>1, <1>4, <3>1 DEF Started
    <2>4. ASSUME NEW e \in Engines, CoordStart(e) PROVE InWave(d)' \/ Told(d)'
        <3> DEFINE w == Head(toCoord[e]).wave
        <3>1. /\ toCoord[e] # <<>> /\ Head(toCoord[e]).type = "start"
              /\ toCoord' = [toCoord EXCEPT ![e] = Tail(@)]
              /\ \/ UNCHANGED <<cWave, cRunning>>
                 \/ cWave' = w /\ starts' = Start(w, e)
            BY <2>4 DEF CoordStart, coordVars
        <3>2. Head(toCoord[e]) \in ToSet(toCoord[e])
            BY <3>1, CoordHead
        <3>3. ~UNCHANGED <<cWave, cRunning>>
            BY <1>1, <1>4 DEF Started
        <3>4. w = Now /\ starts' = Start(Now, e)
            BY <1>1, <3>1, <3>3
        <3>5. InWave(e)
            BY <1>1, <3>1, <3>2, <3>4 DEF StartsMatch
        <3>6. CASE d = e
            BY <1>2, <3>5, <3>6
        <3>7. CASE d # e
            BY <2>1, <3>4, <3>7
        <3> QED BY <3>6, <3>7
    <2>5. CASE UNCHANGED <<cWave, cRunning>>
        BY <1>1, <1>4, <2>5 DEF Started
    <2> QED BY <1>1, <2>2, <2>3, <2>4, <2>5, UnpausedSteps
            DEF vars, coordVars, SendFirst, ReadNews, HandleStart, Begin, EndLoop, HandleAdd,
                HandleAbort, Forward, AllReduce, AddRequest, AbortRequest
<1> QED BY <1>3, <1>4

LEMMA StartsMatchKept ==
    ASSUME Types, WavesAgree, PauseInv, pauses = 0, WakeInv, pauses' = 0, [Next]_vars,
           Now' = Now
    PROVE  StartsMatch'
<1>1. /\ calls = {} /\ StartsMatch /\ Same /\ running \in [Engines -> BOOLEAN]
    BY NextSame DEF WakeInv, Types, EngineTypes
<1>2. \A e \in Engines : InWave(e) => InWave(e)'
    BY <1>1, InWaveKept
<1>3. Started => Started'
    BY StartedKept
<1>4. ASSUME NEW e \in Engines, NEW m \in ToSet(toCoord'[e]), m.type = "start", m.wave = Now
      PROVE  InWave(e)'
    <2>1. CASE m \in ToSet(toCoord[e])
        BY <1>1, <1>2, <1>4, <2>1 DEF StartsMatch
    <2>2. CASE m \notin ToSet(toCoord[e])
        <3>1. ASSUME NEW d \in Engines, NEW f \in Fronts, HandleAdd(f, d) PROVE InWave(e)'
            <4>1. d = e /\ pc[e] = "poll" /\ running'[e]
                BY <1>4, <2>2, <3>1, EngineSends
            <4>2. pc' = pc
                BY <3>1 DEF HandleAdd
            <4> QED BY <4>1, <4>2 DEF InWave, Over
        <3>2. ASSUME NEW d \in Engines, EndLoop(d) PROVE InWave(e)'
            <4>1. pc[d] = "poll"
                BY <1>4, <2>2, <3>2, EngineSends
            <4> QED BY <3>2, <4>1 DEF EndLoop
        <3>3. ASSUME CoordStep PROVE FALSE
            BY <1>4, <2>2, <3>3, CoordWaves
        <3>4. toCoord' # toCoord
            BY <1>4, <2>2
        <3> QED BY <1>1, <3>1, <3>2, <3>3, <3>4, UnpausedSteps
                DEF vars, channels, SendFirst, ReadNews, CoordStep, HandleStart, Begin, HandleAbort,
                    Forward, AllReduce, AddRequest, AbortRequest
    <2> QED BY <2>1, <2>2
<1>5. ASSUME NEW e \in Engines, NEW m \in ToSet(starts'[e]), m.wave = Now PROVE Started'
    <2>1. CASE m \in ToSet(starts[e])
        BY <1>1, <1>3, <1>5, <2>1 DEF StartsMatch
    <2>2. CASE m \notin ToSet(starts[e])
        <3>1. ASSUME CoordStep PROVE Started'
            <4>1. m.wave = cWave' /\ cRunning'
                BY <2>2, <3>1, CoordWaves
            <4> QED BY <1>5, <4>1 DEF Started
        <3>2. ASSUME NEW d \in Engines, HandleStart(d) PROVE FALSE
            <4> DEFINE S == [wave : Nat, exclude : Engines \cup {-1}]
            <4>1. starts \in [Engines -> Seq(S)] /\ starts[d] # <<>>
                  /\ starts' = [starts EXCEPT ![d] = Tail(@)]
                BY <3>2 DEF HandleStart, Types, ChannelTypes
            <4> HIDE DEF S
            <4>2. ToSet(Tail(starts[d])) \subseteq ToSet(starts[d])
                BY <4>1, TailSet
            <4> QED BY <2>2, <4>1, <4>2
        <3>3. starts' # starts
            BY <2>2
        <3> QED BY <1>1, <3>1, <3>2, <3>3, UnpausedSteps
                DEF vars, channels, SendFirst, ReadNews, CoordStep, Begin, EndLoop, HandleAdd,
                    HandleAbort, Forward, AllReduce, AddRequest, AbortRequest
    <2> QED BY <2>1, <2>2
<1> QED BY <1>1, <1>4, <1>5 DEF StartsMatch, Same

LEMMA OneMore ==
    ASSUME NEW n \in Nat
    PROVE  n + 1 > 0
OBVIOUS

LEMMA FrontsKnowKept ==
    ASSUME Types, WavesAgree, PauseInv, pauses = 0, WakeInv, pauses' = 0, [Next]_vars,
           Now' = Now
    PROVE  FrontsKnow'
<1>1. /\ calls = {} /\ FrontsKnow /\ Same
      /\ cWave \in Nat /\ Now \in Nat /\ cWave <= Now
      /\ \A f \in Fronts : fWave[f] \in Nat /\ fWave[f] <= cWave
      /\ fWave \in [Fronts -> Nat] /\ fRunning \in [Fronts -> BOOLEAN]
      /\ wakes \in [Fronts -> Seq(Nat)] /\ first \in [Fronts -> Nat]
    BY NextSame, MessageWaves DEF WakeInv, Types, OtherTypes, ChannelTypes, WavesAgree
<1>2. Started => Started'
    BY StartedKept
<1>3. Woken => Woken'
    BY <1>1, WokenKept
<1>4. \A f \in Fronts : fWave[f] = Now => cWave = Now
    <2> SUFFICES ASSUME NEW f \in Fronts, fWave[f] = Now
                 PROVE  cWave = Now
        OBVIOUS
    <2>1. fWave[f] <= cWave
        BY <1>1
    <2> QED BY <1>1, <2>1
<1>5. ASSUME NEW f \in Fronts, fRunning'[f], fWave'[f] = Now
      PROVE  Started' \/ wakes'[f] # <<>>
    <2>1. CASE fRunning'[f] = fRunning[f] /\ fWave'[f] = fWave[f] /\ wakes'[f] = wakes[f]
        BY <1>1, <1>2, <1>5, <2>1 DEF FrontsKnow
    <2>2. ASSUME NEW g \in Fronts, SendFirst(g) PROVE Started' \/ wakes'[f] # <<>>
        <3>1. /\ fRunning' = [fRunning EXCEPT ![g] = TRUE] /\ fWave' = fWave
              /\ wakes' = [wakes EXCEPT ![g] = Append(@, fWave[g])]
            BY <2>2 DEF SendFirst
        <3>2. CASE g = f
            <4>1. wakes[f] \in Seq(Nat) /\ fWave[f] \in Nat
                BY <1>1
            <4>2. Append(wakes[f], fWave[f]) # <<>>
                <5> DEFINE s == wakes[f]
                           w == fWave[f]
                <5>1. s \in Seq(Nat) /\ w \in Nat
                    BY <4>1
                <5> HIDE DEF s, w
                <5>2. Append(s, w) # <<>>
                    BY <5>1, AppendSet
                <5> QED BY <5>2 DEF s, w
            <4> QED BY <1>1, <3>1, <3>2, <4>2
        <3>3. CASE g # f
            BY <1>1, <2>1, <3>1, <3>3
        <3> QED BY <3>2, <3>3
    <2>3. ASSUME NEW g \in Fronts, ReadNews(g) PROVE Started' \/ wakes'[f] # <<>>
        <3>1. /\ news[g] # <<>> /\ wakes' = wakes
              /\ fRunning' = [fRunning EXCEPT ![g] = Head(news[g]).running]
              /\ fWave' = [fWave EXCEPT ![g] = Head(news[g]).wave]
            BY <2>3 DEF ReadNews, channels
        <3>2. CASE g = f
            <4>1. Head(news[f]) \in ToSet(news[f])
                <5>1. news[f] \in Seq([wave : Nat, running : BOOLEAN]) /\ news[f] # <<>>
                    BY <3>1, <3>2 DEF Types, OtherTypes
                <5> QED BY <5>1, TailSet
            <4>2. Head(news[f]).running /\ Head(news[f]).wave = Now
                BY <1>1, <1>5, <3>1, <3>2
            <4> QED BY <1>1, <1>2, <4>1, <4>2 DEF FrontsKnow
        <3>3. CASE g # f
            BY <1>1, <2>1, <3>1, <3>3
        <3> QED BY <3>2, <3>3
    <2>4. ASSUME NEW g \in Fronts, CoordWake(g) PROVE Started' \/ wakes'[f] # <<>>
        <3>1. /\ fRunning' = fRunning /\ fWave' = fWave /\ wakes' = [wakes EXCEPT ![g] = Tail(@)]
              /\ cWave' = cWave /\ cRunning'
            BY <2>4 DEF CoordWake
        <3>2. cWave = Now
            BY <1>4, <1>5, <3>1
        <3> QED BY <3>1, <3>2 DEF Started
    <2>5. CASE UNCHANGED <<fRunning, fWave, wakes>>
        BY <2>1, <2>5
    <2>6. CASE \E e \in Engines : \/ CoordComplete(e) \/ CoordStart(e)
                                  \/ HandleStart(e) \/ Begin(e) \/ EndLoop(e)
        BY <2>5, <2>6 DEF channels, frontVars, CoordComplete, CoordStart, HandleStart, Begin,
                          EndLoop
    <2>7. CASE \E e \in Engines, g \in Fronts : HandleAdd(g, e) \/ HandleAbort(g, e)
        BY <2>5, <2>7 DEF channels, frontVars, HandleAdd, HandleAbort
    <2>8. CASE (\E es \in SUBSET Engines : Forward(es)) \/ AllReduce
        BY <2>5, <2>8 DEF channels, frontVars, Forward, AllReduce
    <2>9. CASE \E r \in Requests : \E e \in Engines :
                   AddRequest(FrontOf[r], e, r) \/ AbortRequest(FrontOf[r], e, r)
        BY <2>5, <2>9 DEF channels, frontVars, AddRequest, AbortRequest
    <2>10. CASE UNCHANGED vars
        BY <2>5, <2>10 DEF vars, channels, frontVars
    <2> QED BY <1>1, <2>2, <2>3, <2>4, <2>6, <2>7, <2>8, <2>9, <2>10, UnpausedSteps
<1>6. ASSUME NEW f \in Fronts, NEW m \in ToSet(news'[f]), m.running, m.wave = Now
      PROVE  Started'
    <2>1. CASE m \in ToSet(news[f])
        BY <1>1, <1>2, <1>6, <2>1 DEF FrontsKnow
    <2>2. CASE m \notin ToSet(news[f])
        <3>1. ASSUME CoordStep PROVE Started'
            <4>1. m.wave = cWave' /\ (m.running => cRunning')
                BY <2>2, <3>1, CoordWaves
            <4> QED BY <1>6, <4>1 DEF Started
        <3>2. ASSUME NEW g \in Fronts, ReadNews(g) PROVE FALSE
            <4> DEFINE S == [wave : Nat, running : BOOLEAN]
            <4>1. news \in [Fronts -> Seq(S)] /\ news[g] # <<>>
                  /\ news' = [news EXCEPT ![g] = Tail(@)]
                BY <3>2 DEF ReadNews, Types, OtherTypes
            <4> HIDE DEF S
            <4>2. ToSet(Tail(news[g])) \subseteq ToSet(news[g])
                BY <4>1, TailSet
            <4> QED BY <2>2, <4>1, <4>2
        <3>3. news' # news
            BY <2>2
        <3> QED BY <1>1, <3>1, <3>2, <3>3, UnpausedSteps
                DEF vars, frontVars, SendFirst, CoordStep, HandleStart, Begin, EndLoop, HandleAdd,
                    HandleAbort, Forward, AllReduce, AddRequest, AbortRequest
    <2> QED BY <2>1, <2>2
<1>7. ASSUME NEW f \in Fronts, NEW e \in Engines, NEW m \in ToSet(toEngine'[f, e]),
             m.type = "add", m.wave = Now
      PROVE  Woken'
    <2>1. CASE m \in ToSet(toEngine[f, e])
        BY <1>1, <1>3, <1>7, <2>1 DEF FrontsKnow
    <2>2. CASE m \notin ToSet(toEngine[f, e])
        <3>1. ASSUME NEW r \in Requests, NEW d \in Engines,
                     AddRequest(FrontOf[r], d, r)
              PROVE  Woken'
            <4>1. /\ first' = first \/ first' = [first EXCEPT ![FrontOf[r]] = @ + 1]
                  /\ cWave' = cWave /\ wakes' = wakes
                BY <3>1 DEF AddRequest, coordVars
            <4> DEFINE g == FrontOf[r]
                       a == [type |-> "add", req |-> r, wave |-> fWave[g]]
            <4>2. g \in Fronts
                BY ConfigFacts DEF Types, OtherTypes
            <4>3. a \in Inputs /\ a.wave = fWave[g]
                BY <1>1, <4>2 DEF Inputs, Adds
            <4>4. /\ toEngine' = [toEngine EXCEPT ![<<g, d>>] = Append(@, a)]
                  /\ fRunning[g] \/ first' = [first EXCEPT ![g] = @ + 1]
                BY <3>1 DEF AddRequest
            <4> HIDE DEF a, g
            <4>5. \A h \in Fronts, c \in Engines :
                     /\ <<h, c>> # <<g, d>> => toEngine'[h, c] = toEngine[h, c]
                     /\ ToSet(toEngine'[h, c]) \subseteq ToSet(toEngine[h, c]) \cup {a}
                <5>1. /\ a \in Inputs
                      /\ toEngine' = [toEngine EXCEPT ![<<g, d>>] = Append(@, a)]
                    BY <4>3, <4>4
                <5> QED BY <4>2, <5>1, SendFacts, ZenonT(60)
            <4>6. m = a
                BY <2>2, <4>5
            <4>7. fWave[g] = Now /\ cWave = Now
                BY <1>4, <1>7, <4>2, <4>3, <4>6
            <4>8. CASE fRunning[g]
                <5>1. Started \/ wakes[g] # <<>>
                    BY <1>1, <4>2, <4>7, <4>8 DEF FrontsKnow
                <5>2. Woken
                    BY <4>2, <4>7, <5>1 DEF Woken
                <5> QED BY <1>3, <5>2
            <4>9. CASE first' = [first EXCEPT ![g] = @ + 1]
                <5>1. first'[g] > 0
                    <6>1. first[g] \in Nat /\ first'[g] = first[g] + 1
                        BY <1>1, <4>2, <4>9
                    <6> QED BY <6>1, OneMore
                <5> QED BY <1>1, <4>1, <4>2, <4>7, <5>1 DEF Woken, Same
            <4> QED BY <4>4, <4>8, <4>9
        <3>2. ASSUME NEW r \in Requests, NEW d \in Engines, AbortRequest(FrontOf[r], d, r)
              PROVE  FALSE
            <4> DEFINE g == FrontOf[r]
                       a == [type |-> "abort", req |-> r]
            <4>1. g \in Fronts
                BY ConfigFacts DEF Types, OtherTypes
            <4>2. a \in Inputs /\ a.type # "add"
                BY DEF Inputs
            <4>3. toEngine' = [toEngine EXCEPT ![<<g, d>>] = Append(@, a)]
                BY <3>2 DEF AbortRequest
            <4> HIDE DEF a, g
            <4>4. ToSet(toEngine'[f, e]) \subseteq ToSet(toEngine[f, e]) \cup {a}
                <5>1. a \in Inputs
                    BY <4>2
                <5> QED BY <4>1, <4>3, <5>1, SendFacts
            <4> QED BY <1>7, <2>2, <4>2, <4>4
        <3>3. ASSUME NEW g \in Fronts, NEW d \in Engines, HandleAdd(g, d) \/ HandleAbort(g, d)
              PROVE  FALSE
            BY <2>2, <3>3, TakeFacts DEF HandleAdd, HandleAbort
        <3>4. toEngine' # toEngine
            BY <2>2
        <3> QED BY <1>1, <3>1, <3>2, <3>3, <3>4, UnpausedSteps
                DEF vars, channels, SendFirst, ReadNews, CoordWake, CoordComplete, CoordStart,
                    HandleStart, Begin, EndLoop, Forward, AllReduce
    <2> QED BY <2>1, <2>2
<1> QED BY <1>1, <1>5, <1>6, <1>7 DEF FrontsKnow, Same

\* The all-reduce that ends a wave leaves nobody with anything to do, and
\* whatever is under way is about a wave before the new one.
LEMMA WaveEnds ==
    ASSUME Types, WavesAgree, WakeInv, AllReduce, SyncState.unfinished = FALSE, Now' = Now + 1
    PROVE  WakeInv'
<1>1. /\ Same /\ cWave \in Nat /\ Now \in Nat /\ cWave <= Now
      /\ UNCHANGED <<wave, paused, waitQ, runQ, coordVars, frontVars, channels, clientVars>>
      /\ reduced' = SyncState
    BY ConfigKept, MessageWaves DEF AllReduce, WavesAgree
<1>2. \A w \in Nat : w <= Now => w # Now'
    BY <1>1
<1>3. \A w \in Nat : w <= cWave => w # Now'
    <2> SUFFICES ASSUME NEW w \in Nat, w <= cWave PROVE w # Now'
        OBVIOUS
    <2>1. w <= Now
        BY <1>1
    <2> QED BY <1>2, <2>1
<1>4. ~Started'
    BY <1>1, <1>2 DEF Started, coordVars
<1>5. EnginesWake'
    <2> SUFFICES ASSUME NEW e \in Engines
                 PROVE  Over(e)' /\ Unfinished(e)' = {}
        BY <1>1, <1>4 DEF EnginesWake, Same
    <2>1. pc'[e] = "synced"
        BY DEF AllReduce
    <2>2. Over(e)'
        BY <1>1, <2>1 DEF Over
    <2>3. Unfinished(e) = {}
        BY DEF SyncState
    <2>4. Unfinished(e)' = Unfinished(e)
        BY <1>1 DEF Unfinished
    <2> QED BY <2>2, <2>3, <2>4
<1>6. StartsMatch'
    <2>1. \A e \in Engines : \A m \in ToSet(toCoord[e]) : m.type = "start" => m.wave # Now'
        BY <1>2, MessageWaves DEF WavesAgree
    <2>2. \A e \in Engines : \A m \in ToSet(starts[e]) : m.wave # Now'
        BY <1>3, MessageWaves DEF WavesAgree
    <2> QED BY <1>1, <2>1, <2>2 DEF StartsMatch, Same, channels
<1>7. FrontsKnow'
    <2>1. \A f \in Fronts : fWave[f] # Now' /\ \A n \in ToSet(news[f]) : n.wave # Now'
        BY <1>3, MessageWaves DEF WavesAgree
    <2>2. \A f \in Fronts, e \in Engines : \A m \in ToSet(toEngine[f, e]) :
             m.type = "add" => m.wave # Now'
        BY <1>3, MessageWaves DEF WavesAgree
    <2> QED BY <1>1, <2>1, <2>2 DEF FrontsKnow, Same, channels, frontVars
<1>8. calls' = {}
    BY <1>1 DEF WakeInv, clientVars
<1> QED BY <1>5, <1>6, <1>7, <1>8 DEF WakeInv

LEMMA WakeKept ==
    ASSUME Types, WavesAgree, PauseInv, pauses = 0 => WakeInv, [Next]_vars, pauses' = 0
    PROVE  WakeInv'
<1>1. Same /\ pauses \in Nat
    BY NextSame DEF Types, OtherTypes
<1>2. pauses = 0
    <2>1. pauses' = pauses \/ pauses' = pauses + 1
        <3>1. CASE UNCHANGED vars \/ (\E f \in Fronts : FrontStep(f)) \/ CoordStep
            BY <3>1 DEF vars, clientVars, FrontStep, SendFirst, ReadNews, CoordStep, CoordWake,
                    CoordComplete, CoordStart
        <3>4. CASE \E e \in Engines : HandleStart(e) \/ Begin(e) \/ EndLoop(e) \/ PauseDone(e)
            BY <3>4 DEF HandleStart, Begin, EndLoop, PauseDone, clientVars
        <3>5. CASE \E e \in Engines, f \in Fronts : HandleAdd(f, e) \/ HandleAbort(f, e)
            BY <3>5 DEF HandleAdd, HandleAbort, clientVars
        <3>6. CASE \E e \in Engines, f \in Fronts : HandlePause(f, e) \/ HandleResume(f, e)
            BY <3>6 DEF HandlePause, HandleResume, clientVars
        <3>2. CASE Collective
            BY <3>2, CollectiveCases DEF Forward, AllReduce, ResumeBarrier, clientVars
        <3>3. CASE ClientStep \/ ResumeGeneration
            BY <3>3 DEF ClientStep, AddRequest, AbortRequest, PauseGeneration, ResumeGeneration
        <3> QED BY <3>1, <3>2, <3>3, <3>4, <3>5, <3>6 DEF Next, EngineStep, HandleInput
    <2> QED BY <1>1, <2>1
<1>3. WakeInv /\ calls = {}
    BY <1>2 DEF WakeInv
<1>4. CASE AllReduce /\ SyncState.unfinished = FALSE /\ Now' = Now + 1
    BY <1>3, <1>4, WaveEnds
<1>5. CASE Now' = Now
    <2>1. \A d \in Engines : Over(d)' => Over(d) /\ (Unfinished(d) = {} => Unfinished(d)' = {})
        BY <1>2, <1>3, <1>5, InWaveKept
    <2>2. ASSUME NEW d \in Engines
          PROVE  /\ Over(d)' => Unfinished(d)' = {}
                 /\ ~Over(d)' /\ Awake(d)' => Woken'
                 /\ Started' => InWave(d)' \/ Told(d)'
        <3>1. Over(d)' => Unfinished(d)' = {}
            BY <1>3, <2>1 DEF WakeInv, EnginesWake
        <3>2. ~Over(d)' /\ Awake(d)' => Woken'
            BY <1>2, <1>3, <1>5, AwakeKept
        <3>3. Started' => InWave(d)' \/ Told(d)'
            BY <1>2, <1>3, <1>5, ToldKept
        <3> QED BY <3>1, <3>2, <3>3
    <2>3. EnginesWake'
        BY <1>1, <2>2 DEF EnginesWake, Same
    <2>4. StartsMatch' /\ FrontsKnow'
        BY <1>2, <1>3, <1>5, StartsMatchKept, FrontsKnowKept
    <2>5. calls' = {}
        BY <1>2, <1>3, UnpausedSteps
           DEF vars, clientVars, SendFirst, ReadNews, CoordWake, CoordComplete, CoordStart,
               HandleStart, Begin, EndLoop, HandleAdd, HandleAbort, Forward, AllReduce,
               AddRequest, AbortRequest
    <2> QED BY <2>3, <2>4, <2>5 DEF WakeInv
<1> QED BY <1>4, <1>5, WaveStep

LEMMA InitWake ==
    ASSUME Init
    PROVE  WakeInv
<1>0. ToSet(<<>>) = {}
    BY DEF ToSet
<1>1. /\ config \in Configs /\ calls = {} /\ cRunning = FALSE
      /\ \A e \in Engines : /\ pc[e] = "poll" /\ ~running[e] /\ paused[e] = "no"
                            /\ waitQ[e] = {} /\ runQ[e] = {}
                            /\ toCoord[e] = <<>> /\ starts[e] = <<>>
      /\ \A f \in Fronts : ~fRunning[f] /\ news[f] = <<>>
      /\ \A f \in Fronts, e \in Engines : toEngine[f, e] = <<>>
    BY DEF Init
<1>2. ~Started
    BY <1>1 DEF Started
<1>3. \A e \in Engines : ~Over(e) /\ Unfinished(e) = {} /\ ~Awake(e)
    BY <1>1 DEF Over, Unfinished, Awake, HasWork
<1>4. EnginesWake
    BY <1>2, <1>3 DEF EnginesWake
<1>5. StartsMatch
    BY <1>0, <1>1 DEF StartsMatch
<1>6. FrontsKnow
    BY <1>0, <1>1 DEF FrontsKnow
<1> QED BY <1>1, <1>4, <1>5, <1>6 DEF WakeInv

\* Once every message has arrived, a wave in which somebody is awake has been
\* started, and everybody is in it.
LEMMA WakeFollows ==
    ASSUME Types, pauses = 0 => WakeInv
    PROVE  WakeupsArrive
<1> SUFFICES ASSUME pauses = 0, Arrived, \A e \in Engines : pc[e] \notin {"synced", "resume"},
                    NEW d \in Engines, NEW e \in Engines, Awake(d)
             PROVE  Awake(e)
    BY DEF WakeupsArrive, NobodySleeps
<1>1. EnginesWake
    BY DEF WakeInv
<1>2. ToSet(<<>>) = {}
    BY DEF ToSet
<1>3. /\ \A c \in Engines : ToSet(starts[c]) = {} /\ ToSet(toCoord[c]) = {}
      /\ \A f \in Fronts : ~(first[f] > 0) /\ wakes[f] = <<>>
    BY <1>2 DEF Arrived
<1>4. ~Over(d)
    BY DEF Over
<1>5. Woken
    BY <1>1, <1>4 DEF EnginesWake
<1>6. Started
    BY <1>3, <1>5 DEF Woken
<1>7. InWave(e)
    BY <1>1, <1>3, <1>6 DEF EnginesWake, Told
<1> QED BY <1>7 DEF InWave, Awake, HasWork

-----------------------------------------------------------------------------
(* The theorems.                                                           *)

\* The invariant of the coordinator, the engines and the front ends: the engines
\* agree on wave and step, pauses are settled, wake-ups are under way.
THEOREM WavesKept == Spec => []Inv
<1>1. Init => Inv
    BY InitTypes, InitWaves, InitPause, InitWake DEF Inv
<1>2. Inv /\ [Next]_vars => Inv'
    <2> SUFFICES ASSUME Inv, [Next]_vars
                 PROVE  Inv'
        OBVIOUS
    <2>1. Types /\ WavesAgree /\ StepsAgree /\ PauseInv /\ (pauses = 0 => WakeInv)
        BY DEF Inv
    <2>2. Types' /\ WavesAgree' /\ StepsAgree' /\ PauseInv'
        BY <2>1, StepTypes, WavesAgreeKept, StepsAgreeKept, PauseKept
    <2>3. pauses' = 0 => WakeInv'
        BY <2>1, WakeKept
    <2> QED BY <2>2, <2>3 DEF Inv
<1> QED BY <1>1, <1>2, PTL DEF Spec

\* Engines that meet in a forward pass or an all-reduce are in the same wave and,
\* unless the experts are replicated, at the same step (core.py, run_busy_loop).
THEOREM WavesStayAligned == Spec => []WavesAlign
<1>1. Inv => WavesAlign
    BY AlignFollows DEF Inv
<1> QED BY <1>1, WavesKept, PTL

\* From the answer to a pause until the resume, no engine runs a step
\* (pause_scheduler in core.py), in whatever order pauses, resumes, requests and
\* start messages arrive.
THEOREM PausesStayQuiet == Spec => []PausedQuiet
<1>1. Inv => PausedQuiet
    BY QuietFollows DEF Inv
<1> QED BY <1>1, WavesKept, PTL

\* While nobody has paused the engines, no wake-up is lost: once every message
\* has arrived, all engines take part in the wave or none has anything to do.
THEOREM NoWakeupLost == Spec => []WakeupsArrive
<1>1. Inv => WakeupsArrive
    BY WakeFollows DEF Inv
<1> QED BY <1>1, WavesKept, PTL
=============================================================================
